---- MODULE Spec2Model ----
(***************************************************************************)
(* A model of the Product Hunt scraper (scraper.js, contactExtractor.js,   *)
(* websiteContactExtractor.js).  Strings that the code inspects with       *)
(* startsWith / includes / concatenation are sequences of tokens, so that  *)
(* prefix and substring tests are computed and not assumed.                *)
(***************************************************************************)
EXTENDS Integers, Sequences, FiniteSets, TLC

VARIABLES
  entry,          \* the function the run was started in
  \* getProductsFromLeaderboard
  lpc,            \* position in getProductsFromLeaderboard
  lPageOpen,      \* the listing page is open
  lastHeight,     \* scroll loop: height measured before the step
  scrollCount,    \* scroll loop: steps performed
  doc,            \* the anchors of the loaded listing page, in document order
  products,       \* primary pass: products pushed by the .each callback
  uniqueProducts, \* the sequence the function returns
  seenUrls,       \* the Set of urls already in uniqueProducts
  nPrimary,       \* Len(uniqueProducts) when the primary pass ended
  \* extractWebsiteContactInfo
  pcW,            \* position in extractWebsiteContactInfo
  wPage,          \* its page: "none", "open", "closed"
  wUrl,           \* the websiteUrl argument
  navRetry,       \* retryCount of the navigation loop
  timedOut,       \* timeoutPromise has rejected
  navClock,       \* seconds since timeoutPromise was created, in the navigation loop
  navAttempt,     \* the latest navigation attempt
  wLoc,           \* the document the page shows: "blank", "main", "contact"
  contactPageUrl,
  contactPageInfo,
  initialContactInfo,
  footerContactInfo,
  mergedContactInfo,
  wResult,        \* the value returned
  wFailed,        \* the outer catch block ran
  \* extractContactInfo
  pcP,            \* position in extractContactInfo
  pPage,          \* its page: "none", "open", "closed"
  pResult,        \* the value returned
  pFailed,        \* the catch block ran
  \* getProductDetails
  pcD,            \* position in getProductDetails
  dPage,          \* the product page: "none", "open", "closed"
  rPage,          \* the redirect-follow page: "none", "open", "closed"
  pgRedirect,     \* the product page holds a producthunt.com/r/ link
  websiteUrl,
  tried,          \* the strategies whose lookup ran
  yield,          \* what each strategy gave (<<>>: nothing)
  bebopCount,     \* the denylist guard's count of mentions (0: guard not run)
  headerBebopLink,
  productDetails,
  retryCount,     \* of the website contact loop
  websiteContactInfo,
  websiteTry,     \* calls of extractWebsiteContactInfo by the loop, wait before the latest
  makerLinks,     \* the maker links of the page, until the maker loop starts
  makerDelayTime, \* the delay after the latest maker, in ms (0: none)
  makersToProcess,
  mi,             \* index of the maker being processed
  dResult,        \* the value returned
  dFailed,        \* the outer catch block ran
  \* scrapeProductHunt
  pcB,            \* position in scrapeProductHunt
  productsToProcess,
  bi,             \* the loop index i, from 1
  allProductData,
  failedRequests, \* requestStats.failedRequests
  \* adaptiveDelay
  consecutiveRequests,  \* requestStats.consecutiveRequests
  lastCall,       \* the latest call of adaptiveDelay: what it read and the delay it computed
  \* a function called on its own
  fnInput,        \* its argument
  fnOutput,       \* its result
  fnDone,         \* it has returned
  \* continuous-scraper.js, cron-scraper.js
  pcR,            \* position in the run loop / in main
  envFile,        \* the date of the TARGET_URL line of .env (NoDate: no such line)
  processEnv,     \* process.env.TARGET_URL of the running process
  updateResult,   \* what updateTargetUrl returned in this cycle
  childTarget,    \* TARGET_URL of the node index.js child of this cycle
  cycleResult,    \* "running", "succeeded", "failed"
  failure,        \* the step of this cycle that threw ("none": no step)
  cycleCount,     \* cycles started
  targetDates,    \* the dates written to .env, in order
  waited          \* the wait after the latest cycle, in ms

listingVars == <<lpc, lPageOpen, lastHeight, scrollCount, doc, products,
                 uniqueProducts, seenUrls, nPrimary>>

websiteVars == <<pcW, wPage, wUrl, navRetry, timedOut, navClock, navAttempt, wLoc, contactPageUrl,
                 contactPageInfo, initialContactInfo, footerContactInfo,
                 mergedContactInfo, wResult, wFailed>>

profileVars == <<pcP, pPage, pResult, pFailed>>

detailsVars == <<pcD, dPage, rPage, pgRedirect, websiteUrl, tried, yield, bebopCount,
                 headerBebopLink, productDetails, retryCount, websiteContactInfo, websiteTry, makerDelayTime,
                 makerLinks, makersToProcess, mi, dResult, dFailed>>

batchVars == <<pcB, productsToProcess, bi, allProductData, failedRequests>>

delayVars == <<consecutiveRequests, lastCall>>

fnVars == <<fnInput, fnOutput, fnDone>>

runVars == <<pcR, envFile, processEnv, updateResult, childTarget, cycleResult, failure,
             cycleCount, targetDates, waited>>

vars == <<entry, listingVars, websiteVars, profileVars, detailsVars, batchVars, delayVars,
          fnVars, runVars>>

(***************************************************************************)
(* Bounds of the model.                                                    *)
(***************************************************************************)
MaxHeight == 2
MaxLinks == 2
MaxMentions == 6
MaxMakerLinks == 3
maxMakersPerProduct == 2
maxProducts == 2

(***************************************************************************)
(* Token strings.                                                          *)
(***************************************************************************)
PHOrigin == "https://www.producthunt.com"

Includes(s, tok) == \E i \in DOMAIN s : s[i] = tok

StartsWith(s, tok) == Len(s) > 0 /\ s[1] = tok

SeqsUpTo(S, n) == UNION {[1..k -> S] : k \in 0..n}

(***************************************************************************)
(* getProductsFromLeaderboard: the scroll loop.                            *)
(***************************************************************************)
maxScrolls == 50

stableScrolls == 3

minExpectedProducts == 20

Heights == 1..MaxHeight

ScrollGuard_OffByOne(n) == n <= maxScrolls

\* while (scrollCount < maxScrolls)
ScrollGuard(n) == n < maxScrolls

(***************************************************************************)
(* getProductsFromLeaderboard: the listing page and the two passes.        *)
(* An anchor is its href attribute, its trimmed text and the trimmed text  *)
(* of the heading found in or next to it ("" when there is none).          *)
(***************************************************************************)
Hrefs == { <<"/products/", "a">>,
           <<"/products/", "a", "/posts/", "b">>,
           <<"/posts/", "a">>,
           <<"https://blog.example.com", "/posts/", "a">>,
           <<"/about">> }

Anchors == [href : Hrefs, text : {"", "t"}, heading : {"", "h"}]

\* A page that lists minExpectedProducts distinct products.
FullDoc == [i \in 1..minExpectedProducts |->
              [href |-> <<"/products/", ToString(i)>>, text |-> "t", heading |-> ""]]

Docs == SeqsUpTo(Anchors, MaxLinks) \cup {FullDoc}

\* link.href in the live DOM: the href resolved against the page's origin
AbsoluteHref(href) ==
  IF Len(href) > 0 /\ href[1] \in {"/products/", "/posts/", "/about"}
  THEN <<PHOrigin>> \o href
  ELSE href

\* $('a[href^="/products/"]')
PrimarySelector(a) == StartsWith(a.href, "/products/")

\* text of the link, else of the first h3/h4/name/title child
PrimaryName(a) == IF a.text # "" THEN a.text ELSE a.heading

\* `https://www.producthunt.com${productUrl}`
PrimaryUrl(a) == <<PHOrigin>> \o a.href

RECURSIVE PrimaryEach_KeepNameless(_, _)
PrimaryEach_KeepNameless(d, acc) ==
  IF d = <<>> THEN acc
  ELSE LET a == Head(d)
           keep == /\ PrimarySelector(a)
                   /\ ~ \E i \in DOMAIN acc : acc[i].url = PrimaryUrl(a)
       IN PrimaryEach_KeepNameless(Tail(d),
                      IF keep THEN Append(acc, [name |-> PrimaryName(a), url |-> PrimaryUrl(a)])
                      ELSE acc)

\* the .each callback: push unless the url is already in products
RECURSIVE PrimaryEach(_, _)
PrimaryEach(d, acc) ==
  IF d = <<>> THEN acc
  ELSE LET a == Head(d)
           keep == /\ PrimarySelector(a)
                   /\ Len(a.href) > 0
                   /\ PrimaryName(a) # ""
                   /\ ~ \E i \in DOMAIN acc : acc[i].url = PrimaryUrl(a)
       IN PrimaryEach(Tail(d),
                      IF keep THEN Append(acc, [name |-> PrimaryName(a), url |-> PrimaryUrl(a)])
                      ELSE acc)

\* product.url.includes('/products/') && !seenUrls.has(product.url)
PrimaryAccepts(seen, p) == Includes(p.url, "/products/") /\ p.url \notin seen

FallbackAccepts_NoSeen(seen, p) == Includes(p.url, "/posts/")

\* !seenUrls.has(product.url) && product.url.includes('/posts/')
FallbackAccepts(seen, p) == p.url \notin seen /\ Includes(p.url, "/posts/")

\* for (const product of ...) { if (accepts) { seenUrls.add; uniqueProducts.push } }
RECURSIVE AddUnique(_, _, _, _)
AddUnique(ps, uniq, seen, primary) ==
  IF ps = <<>> THEN [uniq |-> uniq, seen |-> seen]
  ELSE LET p == Head(ps)
           ok == IF primary THEN PrimaryAccepts(seen, p) ELSE FallbackAccepts(seen, p)
       IN AddUnique(Tail(ps),
                    IF ok THEN Append(uniq, p) ELSE uniq,
                    IF ok THEN seen \cup {p.url} ELSE seen,
                    primary)

\* document.querySelectorAll('a[href*="/posts/"]')
FallbackSelector(a) == Includes(a.href, "/posts/")

\* the heading's text when a heading is found, else the link text
FallbackName(a) == IF a.heading # "" THEN a.heading ELSE a.text

\* links.map(...).filter(product => product.name && product.url)
RECURSIVE ProductLinks(_)
ProductLinks(d) ==
  IF d = <<>> THEN <<>>
  ELSE LET a == Head(d)
           rest == ProductLinks(Tail(d))
       IN IF FallbackSelector(a) /\ FallbackName(a) # "" /\ Len(a.href) > 0
          THEN <<[name |-> FallbackName(a), url |-> AbsoluteHref(a.href)]>> \o rest
          ELSE rest

notListing == <<entry, websiteVars, profileVars, detailsVars, batchVars, delayVars, fnVars, runVars>>

ListingInit ==
  /\ lpc = "newPage"
  /\ lPageOpen = FALSE
  /\ lastHeight = 0
  /\ scrollCount = 0
  /\ doc = <<>>
  /\ products = <<>>
  /\ uniqueProducts = <<>>
  /\ seenUrls = {}
  /\ nPrimary = 0

\* const page = await browser.newPage(); await page.setUserAgent(...)
L_NewPage ==
  /\ lpc = "newPage"
  /\ \/ lpc' = "threw" /\ UNCHANGED lPageOpen           \* newPage rejects
     \/ lpc' = "threw" /\ lPageOpen' = TRUE             \* setUserAgent rejects
     \/ lpc' = "goto" /\ lPageOpen' = TRUE
  /\ UNCHANGED <<lastHeight, scrollCount, doc, products, uniqueProducts, seenUrls, nPrimary>>
  /\ UNCHANGED notListing

\* page.goto, delay, first document.body.scrollHeight
L_Goto ==
  /\ lpc = "goto"
  /\ \/ lpc' = "catch" /\ UNCHANGED <<lastHeight, scrollCount>>
     \/ \E h \in Heights : lastHeight' = h /\ scrollCount' = 0 /\ lpc' = "scroll"
  /\ UNCHANGED <<lPageOpen, doc, products, uniqueProducts, seenUrls, nPrimary>>
  /\ UNCHANGED notListing

\* one iteration of the while loop
L_ScrollStep ==
  /\ lpc = "scroll"
  /\ ScrollGuard(scrollCount)
  /\ \/ lpc' = "catch" /\ UNCHANGED <<lastHeight, scrollCount>>   \* page.evaluate rejects
     \/ \E newHeight \in Heights :
          /\ scrollCount' = scrollCount + 1
          /\ IF newHeight = lastHeight /\ scrollCount' >= stableScrolls
             THEN lpc' = "content" /\ UNCHANGED lastHeight       \* break
             ELSE lpc' = "scroll" /\ lastHeight' = newHeight
  /\ UNCHANGED <<lPageOpen, doc, products, uniqueProducts, seenUrls, nPrimary>>
  /\ UNCHANGED notListing

\* the loop condition fails
L_ScrollExit ==
  /\ lpc = "scroll"
  /\ ~ ScrollGuard(scrollCount)
  /\ lpc' = "content"
  /\ UNCHANGED <<lPageOpen, lastHeight, scrollCount, doc, products, uniqueProducts, seenUrls, nPrimary>>
  /\ UNCHANGED notListing

\* page.content(), cheerio.load, the primary selector pass and the seenUrls filter
L_PrimaryPass ==
  /\ lpc = "content"
  /\ \/ lpc' = "catch" /\ UNCHANGED <<doc, products, uniqueProducts, seenUrls, nPrimary>>
     \/ \E d \in Docs :
          LET ps == PrimaryEach(d, <<>>)
              r == AddUnique(ps, <<>>, {}, TRUE)
          IN /\ doc' = d
             /\ products' = ps
             /\ uniqueProducts' = r.uniq
             /\ seenUrls' = r.seen
             /\ nPrimary' = Len(r.uniq)
             /\ lpc' = IF Len(r.uniq) < minExpectedProducts THEN "fallback" ELSE "finally"
  \* the scroll loop is over: its locals are kept no longer
  /\ lastHeight' = 0
  /\ scrollCount' = 0
  /\ UNCHANGED lPageOpen
  /\ UNCHANGED notListing

\* the page.evaluate link scan and the second loop over seenUrls
L_FallbackPass ==
  /\ lpc = "fallback"
  /\ \/ lpc' = "catch" /\ UNCHANGED <<uniqueProducts, seenUrls>>
     \/ LET r == AddUnique(ProductLinks(doc), uniqueProducts, seenUrls, FALSE)
        IN /\ uniqueProducts' = r.uniq
           /\ seenUrls' = r.seen
           /\ lpc' = "finally"
  /\ UNCHANGED <<lPageOpen, lastHeight, scrollCount, doc, products, nPrimary>>
  /\ UNCHANGED notListing

\* finally { await page.close() }, then return uniqueProducts or rethrow
L_Finally ==
  /\ lpc \in {"finally", "catch"}
  /\ \/ lPageOpen' = FALSE /\ lpc' = IF lpc = "finally" THEN "returned" ELSE "threw"
     \/ UNCHANGED lPageOpen /\ lpc' = "threw"           \* page.close rejects
  /\ UNCHANGED <<lastHeight, scrollCount, doc, products, uniqueProducts, seenUrls, nPrimary>>
  /\ UNCHANGED notListing

ListingNext ==
  \/ L_NewPage
  \/ L_Goto
  \/ L_ScrollStep
  \/ L_ScrollExit
  \/ L_PrimaryPass
  \/ L_FallbackPass
  \/ L_Finally

(***************************************************************************)
(* Contact bundles.  A field is a string; "" is "not found".               *)
(***************************************************************************)
EmptyBundle == [email |-> "", twitter |-> "", linkedin |-> "", website |-> ""]

FullBundle == [email |-> "a@b.com", twitter |-> "acme_io",
               linkedin |-> "https://linkedin.com/company/acme",
               website |-> "https://acme.com"]

\* what extractContactInfoFromPage can return for a page
Bundles ==
  IF entry = "website"
  THEN [email : {"", "a@b.com", "c@d.com"}, twitter : {"", "acme", "acme_io"},
        linkedin : {"", "https://linkedin.com/company/acme"},
        website : {"", "https://acme.com"}]
  ELSE {EmptyBundle, FullBundle}

\* emails the page-source regexp can give after filtering ("" when none)
SourceEmails == IF entry = "batch" THEN {""} ELSE {"", "press@acme.com"}

Null == [null |-> TRUE]

(***************************************************************************)
(* extractWebsiteContactInfo (websiteContactExtractor.js).                 *)
(***************************************************************************)
navMaxRetries == 3

\* the times of the navigation loop, in seconds: timeoutPromise, the timeout
\* of page.goto, the delay before a retry
hardTimeout == 60

gotoTimeout == 45

retryDelay == 2

\* the seconds after which page.goto settles: it rejects at gotoTimeout at
\* the latest
NavDurations == {1, 29, gotoTimeout}

\* waitUntil of the attempt made when retryCount is n
WaitUntil(n) ==
  IF n = 0 THEN "domcontentloaded"
  ELSE IF n = 1 THEN "networkidle0"
  ELSE "networkidle2"

NoAttempt == [waitUntil |-> "", startedAt |-> 0, endedAt |-> 0, error |-> "",
              settlesAt |-> 0, inFlight |-> 0]

Schemes == {"https://", "http://"}

\* utils.isValidUrl: new URL(url) does not throw
isValidUrl(u) == Len(u) >= 2 /\ u[1] \in Schemes

Or(a, b) == IF a # "" THEN a ELSE b

Merge_InitialBeforeFooter(c, f, i) ==
  [email    |-> Or(c.email,    Or(i.email,    Or(f.email, ""))),
   twitter  |-> Or(c.twitter,  Or(i.twitter,  Or(f.twitter, ""))),
   linkedin |-> Or(c.linkedin, Or(i.linkedin, Or(f.linkedin, ""))),
   website  |-> Or(c.website,  Or(i.website,  Or(f.website, "")))]

\* mergedContactInfo: contactPageInfo.x || footerContactInfo.x || initialContactInfo.x || ''
Merge(c, f, i) ==
  [email    |-> Or(c.email,    Or(f.email,    Or(i.email, ""))),
   twitter  |-> Or(c.twitter,  Or(f.twitter,  Or(i.twitter, ""))),
   linkedin |-> Or(c.linkedin, Or(f.linkedin, Or(i.linkedin, ""))),
   website  |-> Or(c.website,  Or(f.website,  Or(i.website, "")))]

ContactPageUrls == {<<>>, <<"https://", "acme.com", "/contact">>}

notWebsite == <<entry, listingVars, profileVars, detailsVars, batchVars, delayVars, fnVars, runVars>>

WebsiteIdle ==
  /\ pcW = "idle"
  /\ wPage = "none"
  /\ wUrl = <<>>
  /\ navRetry = 0
  /\ timedOut = FALSE
  /\ navClock = 0
  /\ navAttempt = NoAttempt
  /\ wLoc = "blank"
  /\ contactPageUrl = <<>>
  /\ contactPageInfo = EmptyBundle
  /\ initialContactInfo = EmptyBundle
  /\ footerContactInfo = EmptyBundle
  /\ mergedContactInfo = EmptyBundle
  /\ wResult = EmptyBundle
  /\ wFailed = FALSE

\* the call: the locals of a fresh activation
WebsiteCall(url) ==
  /\ pcW' = "start"
  /\ wPage' = "none"
  /\ wUrl' = url
  /\ navRetry' = 0
  /\ timedOut' = FALSE
  /\ navClock' = 0
  /\ navAttempt' = NoAttempt
  /\ wLoc' = "blank"
  /\ contactPageUrl' = <<>>
  /\ contactPageInfo' = EmptyBundle
  /\ initialContactInfo' = EmptyBundle
  /\ footerContactInfo' = EmptyBundle
  /\ mergedContactInfo' = EmptyBundle
  /\ wResult' = EmptyBundle
  /\ wFailed' = FALSE

\* the caller has taken the result: the activation and its locals are gone
WebsiteReturned ==
  /\ pcW' = "idle"
  /\ wPage' = "none"
  /\ wUrl' = <<>>
  /\ navRetry' = 0
  /\ timedOut' = FALSE
  /\ navClock' = 0
  /\ navAttempt' = NoAttempt
  /\ wLoc' = "blank"
  /\ contactPageUrl' = <<>>
  /\ contactPageInfo' = EmptyBundle
  /\ initialContactInfo' = EmptyBundle
  /\ footerContactInfo' = EmptyBundle
  /\ mergedContactInfo' = EmptyBundle
  /\ wResult' = EmptyBundle
  /\ wFailed' = FALSE

\* the url check, then browser.newPage()
W_Start ==
  /\ pcW = "start"
  /\ IF wUrl = <<>> \/ ~ isValidUrl(wUrl)
     THEN pcW' = "returned" /\ wResult' = EmptyBundle /\ UNCHANGED wPage
     ELSE /\ \/ pcW' = "threw" /\ UNCHANGED wPage        \* newPage rejects
             \/ pcW' = "setup" /\ wPage' = "open"
          /\ UNCHANGED wResult
  /\ UNCHANGED <<wUrl, navRetry, timedOut, navClock, navAttempt, wLoc,
                 contactPageUrl, contactPageInfo,
                 initialContactInfo, footerContactInfo, mergedContactInfo, wFailed>>
  /\ UNCHANGED notWebsite

\* setUserAgent, setViewport, setExtraHTTPHeaders, setCookie, the two timeouts,
\* all before the try block; then timeoutPromise is created
W_Setup ==
  /\ pcW = "setup"
  /\ \/ pcW' = "threw"                                   \* one of them rejects
     \/ pcW' = "nav"
  /\ UNCHANGED <<wPage, wUrl, navRetry, timedOut, navClock, navAttempt, wLoc,
                 contactPageUrl, contactPageInfo,
                 initialContactInfo, footerContactInfo, mergedContactInfo, wResult, wFailed>>
  /\ UNCHANGED notWebsite

\* one iteration of the navigation loop: Promise.race([page.goto, timeoutPromise]).
\* The attempt starts at navClock; page.goto settles d seconds later, and
\* timeoutPromise rejects hardTimeout seconds after its creation before the
\* loop.  When the loop is left for the checks its times are kept no longer.
\* Promise.race leaves the promise that lost pending: settlesAt is when the
\* page.goto of the attempt settles, inFlight counts the page.goto promises
\* of this attempt and of the one before that are unsettled once this
\* attempt has called page.goto.
RaceLostToTimer(start, d) ==
  IF start >= hardTimeout THEN {TRUE}
  ELSE IF start + d < hardTimeout THEN {FALSE}
  ELSE IF start + d = hardTimeout THEN {TRUE, FALSE}
  ELSE {TRUE}

GotosInFlight == 1 + (IF navAttempt.settlesAt > navClock THEN 1 ELSE 0)

W_NavAttempt ==
  /\ pcW = "nav"
  /\ navRetry < navMaxRetries
  /\ \E d \in NavDurations, resolves \in BOOLEAN, byTimer \in BOOLEAN :
       /\ byTimer \in RaceLostToTimer(navClock, d)
       /\ resolves => d < gotoTimeout
       /\ IF ~ byTimer /\ resolves
          THEN /\ pcW' = "captcha"                        \* the navigation resolves first
               /\ wLoc' = "main"
               /\ navAttempt' = [NoAttempt EXCEPT !.waitUntil = WaitUntil(navRetry),
                                                 !.inFlight = GotosInFlight]
               /\ navClock' = 0
               /\ UNCHANGED <<navRetry, timedOut>>
          ELSE LET end == IF ~ byTimer THEN navClock + d
                          ELSE IF navClock >= hardTimeout THEN navClock
                          ELSE hardTimeout
               IN /\ navAttempt' = [waitUntil |-> WaitUntil(navRetry),
                                    startedAt |-> navClock,
                                    endedAt   |-> end,
                                    error     |-> IF byTimer THEN "timeout" ELSE "goto",
                                    settlesAt |-> navClock + d,
                                    inFlight  |-> GotosInFlight]
                  /\ navRetry' = navRetry + 1
                  /\ IF navRetry + 1 < navMaxRetries
                     THEN /\ navClock' = end + retryDelay        \* await delay(2000)
                          /\ timedOut' = (end + retryDelay >= hardTimeout)
                          /\ pcW' = "nav"
                     ELSE /\ navClock' = end                     \* throw error
                          /\ timedOut' = (end >= hardTimeout)
                          /\ pcW' = "catch"
                  /\ UNCHANGED wLoc
  /\ UNCHANGED <<wPage, wUrl, contactPageUrl, contactPageInfo,
                 initialContactInfo, footerContactInfo, mergedContactInfo, wResult, wFailed>>
  /\ UNCHANGED notWebsite

\* the CAPTCHA check and the block check: page.evaluate looks for the markers
W_PostLoadCheck ==
  /\ pcW \in {"captcha", "blocked"}
  /\ \/ pcW' = "catch"                                   \* page.evaluate rejects
     \/ pcW' = IF pcW = "captcha" THEN "blocked" ELSE "contactLink"   \* no marker
     \/ pcW' = IF pcW = "captcha" THEN "captchaShot" ELSE "blockedShot"   \* marker
  /\ UNCHANGED <<wPage, wUrl, navRetry, timedOut, navClock, navAttempt, wLoc,
                 contactPageUrl, contactPageInfo,
                 initialContactInfo, footerContactInfo, mergedContactInfo, wResult, wFailed>>
  /\ UNCHANGED notWebsite

\* a marker was found: the message is logged, then await page.screenshot(...)
W_Screenshot ==
  /\ pcW \in {"captchaShot", "blockedShot"}
  /\ \/ pcW' = IF pcW = "captchaShot" THEN "blocked" ELSE "contactLink"   \* taken
     \/ pcW' = "catch"                                   \* page.screenshot rejects
  /\ UNCHANGED <<wPage, wUrl, navRetry, timedOut, navClock, navAttempt, wLoc,
                 contactPageUrl, contactPageInfo,
                 initialContactInfo, footerContactInfo, mergedContactInfo, wResult, wFailed>>
  /\ UNCHANGED notWebsite

\* the contact-link scan, in its own try block
W_ContactLink ==
  /\ pcW = "contactLink"
  /\ \E u \in ContactPageUrls :                          \* <<>>: none found, or evaluate rejected
       /\ contactPageUrl' = u
       /\ pcW' = IF u # <<>> THEN "contactPage" ELSE "initial"
  /\ UNCHANGED <<wPage, wUrl, navRetry, timedOut, navClock, navAttempt, wLoc, contactPageInfo,
                 initialContactInfo, footerContactInfo, mergedContactInfo, wResult, wFailed>>
  /\ UNCHANGED notWebsite

\* the contact page detour, in its own try block
W_ContactPage ==
  /\ pcW = "contactPage"
  /\ \/ /\ wLoc' \in {"main", "contact"}                 \* goto(contactPageUrl) rejects
        /\ UNCHANGED contactPageInfo
     \/ /\ wLoc' = "contact"                             \* extractContactInfoFromPage rejects
        /\ UNCHANGED contactPageInfo
     \/ \E b \in Bundles :
          /\ contactPageInfo' = b
          /\ wLoc' \in {"main", "contact"}               \* goto(websiteUrl) resolves or rejects
  /\ pcW' = "initial"
  /\ UNCHANGED <<wPage, wUrl, navRetry, timedOut, navClock, navAttempt, contactPageUrl,
                 initialContactInfo, footerContactInfo, mergedContactInfo, wResult, wFailed>>
  /\ UNCHANGED notWebsite

\* initialContactInfo = await extractContactInfoFromPage(page), then the four scroll steps
W_Initial ==
  /\ pcW = "initial"
  /\ \/ pcW' = "catch" /\ UNCHANGED initialContactInfo
     \/ \E b \in Bundles : initialContactInfo' = b /\ pcW' \in {"footer", "catch"}
  /\ UNCHANGED <<wPage, wUrl, navRetry, timedOut, navClock, navAttempt, wLoc,
                 contactPageUrl, contactPageInfo,
                 footerContactInfo, mergedContactInfo, wResult, wFailed>>
  /\ UNCHANGED notWebsite

\* footerContactInfo = await extractContactInfoFromPage(page), the merge, and the
\* page-source email when the merged email is empty
W_FooterMerge ==
  /\ pcW = "footer"
  /\ \/ pcW' = "catch" /\ UNCHANGED <<footerContactInfo, mergedContactInfo>>
     \/ \E b \in Bundles :
          LET m == Merge(contactPageInfo, b, initialContactInfo)
          IN /\ footerContactInfo' = b
             /\ IF m.email # ""
                THEN mergedContactInfo' = m /\ pcW' = "return"
                ELSE \/ mergedContactInfo' = m /\ pcW' = "catch"     \* page.content rejects
                     \/ \E e \in SourceEmails :
                          /\ mergedContactInfo' = [m EXCEPT !.email = e]
                          /\ pcW' = "return"
  /\ UNCHANGED <<wPage, wUrl, navRetry, timedOut, navClock, navAttempt, wLoc,
                 contactPageUrl, contactPageInfo,
                 initialContactInfo, wResult, wFailed>>
  /\ UNCHANGED notWebsite

\* return mergedContactInfo, or the catch block's empty bundle; finally page.close()
W_Finally ==
  /\ pcW \in {"return", "catch"}
  /\ wFailed' = (pcW = "catch")
  /\ \/ /\ wPage' = "closed"
        /\ pcW' = "returned"
        /\ wResult' = IF pcW = "return" THEN mergedContactInfo ELSE EmptyBundle
     \/ /\ pcW' = "threw"                                \* page.close rejects
        /\ UNCHANGED <<wPage, wResult>>
  /\ UNCHANGED <<wUrl, navRetry, timedOut, navClock, navAttempt, wLoc,
                 contactPageUrl, contactPageInfo,
                 initialContactInfo, footerContactInfo, mergedContactInfo>>
  /\ UNCHANGED notWebsite

WebsiteNext ==
  \/ W_Start
  \/ W_Setup
  \/ W_NavAttempt
  \/ W_PostLoadCheck
  \/ W_Screenshot
  \/ W_ContactLink
  \/ W_ContactPage
  \/ W_Initial
  \/ W_FooterMerge
  \/ W_Finally

(***************************************************************************)
(* extractContactInfo (contactExtractor.js).                               *)
(***************************************************************************)
EmptyContact == [email |-> "", xId |-> "", linkedinUrl |-> ""]

FullContact == [email |-> "maker@acme.com", xId |-> "maker_x",
                linkedinUrl |-> "https://linkedin.com/in/maker"]

\* what the profile page scan can give
Contacts == {EmptyContact, FullContact}

notProfile == <<entry, listingVars, websiteVars, detailsVars, batchVars, delayVars, fnVars, runVars>>

ProfileIdle ==
  /\ pcP = "idle"
  /\ pPage = "none"
  /\ pResult = EmptyContact
  /\ pFailed = FALSE

ProfileCall ==
  /\ pcP' = "start"
  /\ pPage' = "none"
  /\ pResult' = EmptyContact
  /\ pFailed' = FALSE

ProfileReturned ==
  /\ pcP' = "idle"
  /\ pPage' = "none"
  /\ pResult' = EmptyContact
  /\ pFailed' = FALSE

\* const page = await browser.newPage(), before the try block
P_NewPage ==
  /\ pcP = "start"
  /\ \/ pcP' = "threw" /\ UNCHANGED pPage
     \/ pcP' = "try" /\ pPage' = "open"
  /\ UNCHANGED <<pResult, pFailed>>
  /\ UNCHANGED notProfile

\* the try block: setUserAgent, goto, content, the link scan, the text scan,
\* the page.evaluate scan
P_Extract ==
  /\ pcP = "try"
  /\ \/ pcP' = "catch" /\ UNCHANGED pResult
     \/ \E c \in Contacts : pResult' = c /\ pcP' = "return"
  /\ UNCHANGED <<pPage, pFailed>>
  /\ UNCHANGED notProfile

\* return, or the catch block's empty result; finally page.close()
P_Finally ==
  /\ pcP \in {"return", "catch"}
  /\ pFailed' = (pcP = "catch")
  /\ \/ /\ pPage' = "closed"
        /\ pcP' = "returned"
        /\ pResult' = IF pcP = "return" THEN pResult ELSE EmptyContact
     \/ /\ pcP' = "threw"                                \* page.close rejects
        /\ UNCHANGED <<pPage, pResult>>
  /\ UNCHANGED notProfile

ProfileNext ==
  \/ P_NewPage
  \/ P_Extract
  \/ P_Finally

(***************************************************************************)
(* getProductDetails (scraper.js): the website cascade.                    *)
(***************************************************************************)
EmptyDetails == [productWebsite |-> <<>>, makers |-> <<>>, websiteContactInfo |-> EmptyBundle]

\* hrefs the "visit" scan, the "get it" scan and the external-link scan can give
VisitUrls == {<<>>, <<"https://", "acme.com">>}

GetItUrls ==
  IF entry = "batch" THEN {<<>>, <<"https://", "acme.com">>}
  ELSE {<<>>, <<"https://", "app.acme.com">>}

ExternalUrls ==
  IF entry = "batch" THEN {<<>>, <<"https://", "acme.com">>}
  ELSE {<<>>, <<"https://", "acme.org">>}

\* response.url() of the followed redirect
FinalUrls ==
  IF entry = "batch"
  THEN { <<"https://", "acme.com">>,
         <<"https://", "www.", "producthunt.com", "/posts/", "a">> }
  ELSE { <<"https://", "acme.com", "/?ref=producthunt">>,
         <<"https://", "www.", "producthunt.com", "/posts/", "a">>,
         <<"https://", "lu.ma/producthunt">> }

\* match[1] of the first text pattern that matches (<<>>: none does)
TextMatches ==
  IF entry = "batch" THEN { <<>>, <<"acme.com">>, <<"bebop.ai">> }
  ELSE { <<>>, <<"acme.app">>, <<"https://", "acme.dev">>,
         <<"bebop.ai">>, <<"https://", "Bebop.AI", "/pricing">> }

\* the domains of the email-shaped tokens of the page text, in text order
EmailDomainLists ==
  IF entry = "batch" THEN { <<>>, <<"gmail.com", "acme.com">> }
  ELSE { <<>>, <<"gmail.com">>, <<"acme.io">>, <<"fastmail.com", "acme.io">>,
         <<"bebop.ai">> }

Lower(tok) == IF tok = "Bebop.AI" THEN "bebop.ai" ELSE tok

ToLowerCase(u) == [i \in DOMAIN u |-> Lower(u[i])]

\* if (!url.startsWith('http')) url = 'https://' + url
WithScheme(u) == IF u # <<>> /\ u[1] \notin Schemes THEN <<"https://">> \o u ELSE u

\* !finalUrl.includes('producthunt.com') && !finalUrl.includes('lu.ma/producthunt')
RedirectAccepted(u) == ~ Includes(u, "producthunt.com") /\ ~ Includes(u, "lu.ma/producthunt")

\* domains that contain one of the filtered free-mail names
FreeMail == {"gmail.com", "yahoo.com", "hotmail.com", "outlook.com", "icloud.com",
             "aol.com", "protonmail.com", "mail.com", "fastmail.com"}

\* domains.filter(...)[0], as 'https://' + domain
RECURSIVE FirstCompanyDomain(_)
FirstCompanyDomain(ds) ==
  IF ds = <<>> THEN <<>>
  ELSE IF Head(ds) \notin FreeMail THEN <<"https://", Head(ds)>>
  ELSE FirstCompanyDomain(Tail(ds))

BebopKept_Or(count, header) == count >= 3 \/ header

\* isBebopRealWebsite: if (bebopCount < 3) return false; return headerBebopLink || bebopCount > 5
BebopKept(count, header) == IF count < 3 THEN FALSE ELSE header \/ count > 5

StrategyRuns_Always(w) == TRUE

\* if (!websiteUrl)
StrategyRuns(w) == w = <<>>

(***************************************************************************)
(* getProductDetails: the makers.                                          *)
(***************************************************************************)
\* config.delayBetweenRequests
delayBetweenRequests == 2000

\* Math.random(), in thousandths
RandomThousandths == IF entry = "batch" THEN {0} ELSE {0, 500, 999}

\* randomDelay(min) of utils.js with max undefined: a whole number of ms
\* between 80% and 120% of the base
randomDelay(baseDelay, rnd) ==
  LET min == (baseDelay * 8) \div 10
      max == (baseDelay * 12) \div 10
  IN (rnd * (max - min + 1)) \div 1000 + min

MakerIds == {"m1", "m2", "m3"}

MakerLinks == [id : MakerIds, isMaker : BOOLEAN]

MakerLinkLists ==
  IF entry = "details" THEN SeqsUpTo(MakerLinks, MaxMakerLinks)
  ELSE { <<>>,
         <<[id |-> "m1", isMaker |-> FALSE], [id |-> "m2", isMaker |-> TRUE]>>,
         <<[id |-> "m3", isMaker |-> TRUE], [id |-> "m1", isMaker |-> TRUE],
           [id |-> "m2", isMaker |-> TRUE]>> }

MakerUrl(l) == <<PHOrigin, "/@", l.id>>

\* the .each callback over makerLinks
RECURSIVE CollectMakers(_, _, _)
CollectMakers(links, makers, processedMakerUrls) ==
  IF links = <<>> THEN makers
  ELSE LET l == Head(links)
           u == MakerUrl(l)
           new == u \notin processedMakerUrls
           push == new /\ (l.isMaker \/ Len(makers) < maxMakersPerProduct)
       IN CollectMakers(Tail(links),
                        IF push THEN Append(makers, [url |-> u, name |-> l.id, isMaker |-> l.isMaker])
                        ELSE makers,
                        processedMakerUrls \cup {u})

SortMakers_PageOrder(makers) == makers

\* makers.sort(...): confirmed makers first, the order otherwise kept
SortMakers(makers) ==
  SelectSeq(makers, LAMBDA m : m.isMaker) \o SelectSeq(makers, LAMBDA m : ~ m.isMaker)

Slice_All(sq, n) == sq

\* slice(0, n)
Slice(sq, n) == SubSeq(sq, 1, IF Len(sq) < n THEN Len(sq) ELSE n)

websiteMaxRetries == 2

\* delay(5000 * retryCount) before a retry
retryWaitStep == 5000

NoTry == [calls |-> 0, wait |-> 0]

AllEmpty_Always(b) == TRUE

AllEmpty(b) == b.email = "" /\ b.twitter = "" /\ b.linkedin = "" /\ b.website = ""

notDetails == <<entry, listingVars, batchVars, delayVars, fnVars, runVars>>

DetailsIdle ==
  /\ pcD = "idle"
  /\ dPage = "none"
  /\ rPage = "none"
  /\ pgRedirect = FALSE
  /\ websiteUrl = <<>>
  /\ tried = {}
  /\ yield = [k \in 1..6 |-> <<>>]
  /\ bebopCount = 0
  /\ headerBebopLink = FALSE
  /\ productDetails = EmptyDetails
  /\ retryCount = 0
  /\ websiteContactInfo = Null
  /\ websiteTry = NoTry
  /\ makerDelayTime = 0
  /\ makerLinks = <<>>
  /\ makersToProcess = <<>>
  /\ mi = 0
  /\ dResult = EmptyDetails
  /\ dFailed = FALSE

DetailsCall ==
  /\ pcD' = "newPage"
  /\ dPage' = "none"
  /\ rPage' = "none"
  /\ pgRedirect' = FALSE
  /\ websiteUrl' = <<>>
  /\ tried' = {}
  /\ yield' = [k \in 1..6 |-> <<>>]
  /\ bebopCount' = 0
  /\ headerBebopLink' = FALSE
  /\ productDetails' = EmptyDetails
  /\ retryCount' = 0
  /\ websiteContactInfo' = Null
  /\ websiteTry' = NoTry
  /\ makerDelayTime' = 0
  /\ makerLinks' = <<>>
  /\ makersToProcess' = <<>>
  /\ mi' = 0
  /\ dResult' = EmptyDetails
  /\ dFailed' = FALSE

\* const page = await browser.newPage(), before the try block
D_NewPage ==
  /\ pcD = "newPage"
  /\ \/ pcD' = "threw" /\ UNCHANGED dPage
     \/ pcD' = "setup" /\ dPage' = "open"
  /\ UNCHANGED <<rPage, pgRedirect, websiteUrl, tried, yield, bebopCount, headerBebopLink,
                 productDetails, retryCount, websiteContactInfo, websiteTry, makerDelayTime,
                 makersToProcess, mi, makerLinks,
                 dResult, dFailed>>
  /\ UNCHANGED <<notDetails, websiteVars, profileVars>>

\* setUserAgent, setViewport, setExtraHTTPHeaders, before the try block
D_Setup ==
  /\ pcD = "setup"
  /\ pcD' \in {"threw", "goto"}
  /\ UNCHANGED <<dPage, rPage, pgRedirect, websiteUrl, tried, yield, bebopCount,
                 headerBebopLink, productDetails, retryCount, websiteContactInfo, websiteTry, makerDelayTime,
                 makersToProcess, mi, makerLinks, dResult, dFailed>>
  /\ UNCHANGED <<notDetails, websiteVars, profileVars>>

\* page.goto, delay, page.content, cheerio.load
D_Goto ==
  /\ pcD = "goto"
  /\ \/ pcD' = "catch" /\ UNCHANGED pgRedirect
     \/ pcD' = "s1" /\ pgRedirect' \in BOOLEAN
  /\ UNCHANGED <<dPage, rPage, websiteUrl, tried, yield, bebopCount, headerBebopLink,
                 productDetails, retryCount, websiteContactInfo, websiteTry, makerDelayTime,
                 makersToProcess, mi, makerLinks,
                 dResult, dFailed>>
  /\ UNCHANGED <<notDetails, websiteVars, profileVars>>

\* a strategy that is one page.evaluate: websiteUrl = await page.evaluate(...)
EvalStrategy(k, urls, next) ==
  /\ \/ pcD' = "catch" /\ UNCHANGED <<websiteUrl, yield>>
     \/ \E u \in urls : websiteUrl' = u /\ yield' = [yield EXCEPT ![k] = u] /\ pcD' = next
  /\ tried' = tried \cup {k}

SkipStrategy(next) ==
  /\ pcD' = next
  /\ UNCHANGED <<websiteUrl, yield, tried>>

\* first approach: the "visit" button
D_Strategy1 ==
  /\ pcD = "s1"
  /\ EvalStrategy(1, VisitUrls, "s2")
  /\ UNCHANGED <<dPage, rPage, pgRedirect, bebopCount, headerBebopLink,
                 productDetails, retryCount, websiteContactInfo, websiteTry, makerDelayTime,
                 makersToProcess, mi, makerLinks,
                 dResult, dFailed>>
  /\ UNCHANGED <<notDetails, websiteVars, profileVars>>

\* second approach: the redirect link; a link found opens the redirect page
D_Strategy2 ==
  /\ pcD = "s2"
  /\ IF StrategyRuns(websiteUrl)
     THEN /\ tried' = tried \cup {2}
          /\ IF pgRedirect
             THEN \/ pcD' = "s3" /\ UNCHANGED rPage           \* newPage rejects: caught
                  \/ pcD' = "redirect" /\ rPage' = "open"
             ELSE pcD' = "s3" /\ UNCHANGED rPage
     ELSE pcD' = "s3" /\ UNCHANGED <<tried, rPage>>
  /\ UNCHANGED <<dPage, pgRedirect, websiteUrl, yield, bebopCount, headerBebopLink,
                 productDetails, retryCount, websiteContactInfo, websiteTry, makerDelayTime,
                 makersToProcess, mi, makerLinks,
                 dResult, dFailed>>
  /\ UNCHANGED <<notDetails, websiteVars, profileVars>>

\* setUserAgent, goto, response.url(), the check, redirectPage.close(), all in
\* one try block whose catch only logs
D_RedirectNav ==
  /\ pcD = "redirect"
  /\ \/ UNCHANGED <<websiteUrl, yield, rPage>>               \* setUserAgent or goto rejects
     \/ \E finalUrl \in FinalUrls :
          LET u == IF RedirectAccepted(finalUrl) THEN finalUrl ELSE <<>>
          IN /\ websiteUrl' = u
             /\ yield' = [yield EXCEPT ![2] = u]
             /\ \/ rPage' = "closed"
                \/ UNCHANGED rPage                            \* close rejects: caught
  /\ pcD' = "s3"
  /\ UNCHANGED <<dPage, pgRedirect, tried, bebopCount, headerBebopLink,
                 productDetails, retryCount, websiteContactInfo, websiteTry, makerDelayTime,
                 makersToProcess, mi, makerLinks,
                 dResult, dFailed>>
  /\ UNCHANGED <<notDetails, websiteVars, profileVars>>

\* third approach: the "get it" button
D_Strategy3 ==
  /\ pcD = "s3"
  /\ IF StrategyRuns(websiteUrl) THEN EvalStrategy(3, GetItUrls, "s4") ELSE SkipStrategy("s4")
  /\ UNCHANGED <<dPage, rPage, pgRedirect, bebopCount, headerBebopLink,
                 productDetails, retryCount, websiteContactInfo, websiteTry, makerDelayTime,
                 makersToProcess, mi, makerLinks,
                 dResult, dFailed>>
  /\ UNCHANGED <<notDetails, websiteVars, profileVars>>

\* fourth approach: the shortest external link
D_Strategy4 ==
  /\ pcD = "s4"
  /\ IF StrategyRuns(websiteUrl) THEN EvalStrategy(4, ExternalUrls, "s5") ELSE SkipStrategy("s5")
  /\ UNCHANGED <<dPage, rPage, pgRedirect, bebopCount, headerBebopLink,
                 productDetails, retryCount, websiteContactInfo, websiteTry, makerDelayTime,
                 makersToProcess, mi, makerLinks,
                 dResult, dFailed>>
  /\ UNCHANGED <<notDetails, websiteVars, profileVars>>

\* fifth approach: the text patterns; a bebop.ai url goes to the guard
D_Strategy5 ==
  /\ pcD = "s5"
  /\ IF StrategyRuns(websiteUrl)
     THEN /\ tried' = tried \cup {5}
          /\ \/ pcD' = "catch" /\ UNCHANGED <<websiteUrl, yield>>
             \/ \E m \in TextMatches :
                  LET u == WithScheme(m)
                  IN /\ websiteUrl' = u
                     /\ yield' = [yield EXCEPT ![5] = u]
                     /\ pcD' = IF u # <<>> /\ Includes(ToLowerCase(u), "bebop.ai")
                               THEN "bebopGuard" ELSE "s6"
     ELSE SkipStrategy("s6")
  /\ UNCHANGED <<dPage, rPage, pgRedirect, bebopCount, headerBebopLink,
                 productDetails, retryCount, websiteContactInfo, websiteTry, makerDelayTime,
                 makersToProcess, mi, makerLinks,
                 dResult, dFailed>>
  /\ UNCHANGED <<notDetails, websiteVars, profileVars>>

\* isBebopRealWebsite = await page.evaluate(...); a rejected url is reset to ''
D_BebopGuard ==
  /\ pcD = "bebopGuard"
  /\ \/ pcD' = "catch" /\ UNCHANGED <<websiteUrl, yield, bebopCount, headerBebopLink>>
     \/ \E c \in 1..MaxMentions, h \in BOOLEAN :
          /\ bebopCount' = c
          /\ headerBebopLink' = h
          /\ websiteUrl' = IF BebopKept(c, h) THEN websiteUrl ELSE <<>>
          /\ yield' = [yield EXCEPT ![5] = websiteUrl']
          /\ pcD' = "s6"
  /\ UNCHANGED <<dPage, rPage, pgRedirect, tried,
                 productDetails, retryCount, websiteContactInfo, websiteTry, makerDelayTime,
                 makersToProcess, mi, makerLinks,
                 dResult, dFailed>>
  /\ UNCHANGED <<notDetails, websiteVars, profileVars>>

\* sixth approach: the domain of an email address of the page text
D_Strategy6 ==
  /\ pcD = "s6"
  /\ IF StrategyRuns(websiteUrl)
     THEN /\ tried' = tried \cup {6}
          /\ \/ pcD' = "catch" /\ UNCHANGED <<websiteUrl, yield>>
             \/ \E ds \in EmailDomainLists :
                  LET u == FirstCompanyDomain(ds)
                  IN /\ websiteUrl' = IF u # <<>> THEN u ELSE websiteUrl
                     /\ yield' = [yield EXCEPT ![6] = u]
                     /\ pcD' = "website"
     ELSE SkipStrategy("website")
  /\ UNCHANGED <<dPage, rPage, pgRedirect, bebopCount, headerBebopLink,
                 productDetails, retryCount, websiteContactInfo, websiteTry, makerDelayTime,
                 makersToProcess, mi, makerLinks,
                 dResult, dFailed>>
  /\ UNCHANGED <<notDetails, websiteVars, profileVars>>

(***************************************************************************)
(* getProductDetails: website contact info, makers, return.                *)
(***************************************************************************)
\* if (websiteUrl) { productDetails.productWebsite = websiteUrl; retryCount = 0; ... }
D_WebsiteStart ==
  /\ pcD = "website"
  /\ IF websiteUrl # <<>>
     THEN /\ productDetails' = [productDetails EXCEPT !.productWebsite = websiteUrl]
          /\ pcD' = "websiteLoop"
     ELSE /\ pcD' = "makers"
          /\ UNCHANGED productDetails
  /\ retryCount' = 0
  /\ websiteContactInfo' = Null
  /\ websiteTry' = NoTry
  /\ makerDelayTime' = 0
  \* the cascade is over: its record is kept no longer
  /\ tried' = {}
  /\ yield' = [k \in 1..6 |-> <<>>]
  /\ bebopCount' = 0
  /\ headerBebopLink' = FALSE
  /\ pgRedirect' = FALSE
  /\ UNCHANGED <<dPage, rPage, websiteUrl, makersToProcess, mi, makerLinks, dResult, dFailed>>
  /\ UNCHANGED <<notDetails, websiteVars, profileVars>>

\* while (retryCount <= maxRetries && !websiteContactInfo): the call, or the loop's end
D_WebsiteLoop ==
  /\ pcD = "websiteLoop"
  /\ IF retryCount <= websiteMaxRetries /\ websiteContactInfo = Null
     THEN /\ WebsiteCall(websiteUrl)
          /\ websiteTry' = [calls |-> websiteTry.calls + 1,
                            wait  |-> IF retryCount > 0 THEN retryWaitStep * retryCount ELSE 0]
          /\ pcD' = "websiteWait"
          /\ UNCHANGED productDetails
     ELSE /\ productDetails' =
                [productDetails EXCEPT !.websiteContactInfo =
                   IF websiteContactInfo = Null THEN EmptyBundle ELSE websiteContactInfo]
          /\ pcD' = "makers"
          /\ UNCHANGED <<websiteVars, websiteTry>>
  /\ UNCHANGED <<dPage, rPage, pgRedirect, websiteUrl, tried, yield, bebopCount,
                 headerBebopLink, retryCount, websiteContactInfo, makerDelayTime,
                 makersToProcess, mi, makerLinks,
                 dResult, dFailed>>
  /\ UNCHANGED <<notDetails, profileVars>>

\* extractWebsiteContactInfo has returned or thrown
D_WebsiteReturn ==
  /\ pcD = "websiteWait"
  /\ pcW \in {"returned", "threw"}
  /\ IF pcW = "returned"
     THEN IF AllEmpty(wResult) /\ retryCount < websiteMaxRetries
          THEN websiteContactInfo' = Null /\ retryCount' = retryCount + 1
          ELSE websiteContactInfo' = wResult /\ UNCHANGED retryCount
     ELSE /\ retryCount' = retryCount + 1
          /\ websiteContactInfo' = IF retryCount + 1 > websiteMaxRetries THEN EmptyBundle ELSE Null
  /\ WebsiteReturned
  /\ pcD' = "websiteLoop"
  /\ UNCHANGED <<dPage, rPage, pgRedirect, websiteUrl, tried, yield, bebopCount,
                 headerBebopLink, productDetails, websiteTry, makerDelayTime, makersToProcess, mi, makerLinks, dResult, dFailed>>
  /\ UNCHANGED <<notDetails, profileVars>>

\* the maker links of the page, the .each callback, the sort and the slice
D_Makers ==
  /\ pcD = "makers"
  /\ \E links \in MakerLinkLists :
       /\ makerLinks' = links
       /\ makersToProcess' = Slice(SortMakers(CollectMakers(links, <<>>, {})), maxMakersPerProduct)
  /\ mi' = 1
  /\ pcD' = "makerLoop"
  /\ UNCHANGED <<dPage, rPage, pgRedirect, websiteUrl, tried, yield, bebopCount,
                 headerBebopLink, productDetails, retryCount, websiteContactInfo, websiteTry, makerDelayTime,
                 dResult, dFailed>>
  /\ UNCHANGED <<notDetails, websiteVars, profileVars>>

\* for (const maker of makersToProcess): the call, or the loop's end
D_MakerLoop ==
  /\ pcD = "makerLoop"
  /\ IF mi <= Len(makersToProcess)
     THEN ProfileCall /\ pcD' = "makerWait"
     ELSE UNCHANGED profileVars /\ pcD' = "return"
  /\ makerDelayTime' = 0                               \* the delay is over
  /\ makerLinks' = <<>>                                 \* the link list is used no more
  /\ UNCHANGED <<dPage, rPage, pgRedirect, websiteUrl, tried, yield, bebopCount,
                 headerBebopLink, productDetails, retryCount, websiteContactInfo, websiteTry,
                 makersToProcess, mi, dResult, dFailed>>
  /\ UNCHANGED <<notDetails, websiteVars>>

\* extractContactInfo has returned (the maker is pushed) or thrown (caught: continue)
D_MakerReturn ==
  /\ pcD = "makerWait"
  /\ pcP \in {"returned", "threw"}
  /\ IF pcP = "returned"
     THEN /\ productDetails' =
               [productDetails EXCEPT !.makers =
                  Append(@, [url |-> makersToProcess[mi].url,
                             name |-> makersToProcess[mi].name,
                             isMaker |-> makersToProcess[mi].isMaker,
                             email |-> pResult.email,
                             xId |-> pResult.xId,
                             linkedinUrl |-> pResult.linkedinUrl])]
          /\ \E rnd \in RandomThousandths :
               makerDelayTime' = randomDelay(delayBetweenRequests \div 2, rnd)
     ELSE UNCHANGED productDetails /\ makerDelayTime' = 0
  /\ mi' = mi + 1
  /\ ProfileReturned
  /\ pcD' = "makerLoop"
  /\ UNCHANGED <<dPage, rPage, pgRedirect, websiteUrl, tried, yield, bebopCount,
                 headerBebopLink, retryCount, websiteContactInfo, websiteTry, makerLinks,
                 makersToProcess,
                 dResult, dFailed>>
  /\ UNCHANGED <<notDetails, websiteVars>>

\* return productDetails, or the catch block's empty details; finally page.close()
D_Finally ==
  /\ pcD \in {"return", "catch"}
  /\ dFailed' = (pcD = "catch")
  /\ \/ /\ dPage' = "closed"
        /\ pcD' = "returned"
        /\ dResult' = IF pcD = "return" THEN productDetails ELSE EmptyDetails
     \/ /\ pcD' = "threw"                                \* page.close rejects
        /\ UNCHANGED <<dPage, dResult>>
  /\ UNCHANGED <<rPage, pgRedirect, websiteUrl, tried, yield, bebopCount, headerBebopLink,
                 productDetails, retryCount, websiteContactInfo, websiteTry, makerDelayTime, makersToProcess, mi, makerLinks>>
  /\ UNCHANGED <<notDetails, websiteVars, profileVars>>

DetailsNext ==
  \/ D_NewPage
  \/ D_Setup
  \/ D_Goto
  \/ D_Strategy1
  \/ D_Strategy2
  \/ D_RedirectNav
  \/ D_Strategy3
  \/ D_Strategy4
  \/ D_Strategy5
  \/ D_BebopGuard
  \/ D_Strategy6
  \/ D_WebsiteStart
  \/ D_WebsiteLoop
  \/ D_WebsiteReturn
  \/ D_Makers
  \/ D_MakerLoop
  \/ D_MakerReturn
  \/ D_Finally

(***************************************************************************)
(* adaptiveDelay (scraper.js).  Delays are counted in half milliseconds.   *)
(* A JavaScript number is a binary64 value: the values of one binade are   *)
(* equally spaced and the spacing doubles from one binade to the next, so  *)
(* a jitter below 1000 ms lies on a finer grid than a sum above 1024 ms    *)
(* and the sum is rounded, a tie going to the even neighbour.  Here the    *)
(* grid is half a millisecond below 1024 ms and one millisecond above.     *)
(***************************************************************************)
Ms(n) == 2 * n

\* the binary64 result of an addition whose exact value is x
Fl(x) ==
  IF x < Ms(1024) \/ x % 2 = 0 THEN x
  ELSE IF (x + 1) % 4 = 0 THEN x + 1 ELSE x - 1

\* Date.now() - requestStats.lastRequestTime, in ms
TimesSinceLastRequest == {200, 5000}

\* Math.random() * 1000: at least 0, less than 1000 ms
Random1000 == IF entry = "batch" THEN {0} ELSE {0, 1, Ms(500), Ms(1000) - 2, Ms(1000) - 1}

\* Math.random() * 2000: at least 0, less than 2000 ms
Random2000 == IF entry = "batch" THEN {0} ELSE {0, 1, Ms(2000) - 1}

TooQuick_Never(t) == FALSE

\* if (timeSinceLastRequest < 1000)
TooQuick(t) == t < 1000

\* delayTime as adaptiveDelay computes it from the counters c (consecutive requests)
\* and f (failed requests), the time t since the last request and the random terms
DelayTime(c, f, t, r1, r2) ==
  LET base == IF c > 5
              THEN (Ms(delayBetweenRequests) * (5 + (c - 5))) \div 5
              ELSE Ms(delayBetweenRequests)
      jittered == Fl(base + r1)
      quick == IF TooQuick(t) THEN Fl(jittered + Fl(Ms(1000) + r2)) ELSE jittered
  IN IF f > 0 THEN Fl(quick + f * Ms(1000)) ELSE quick

Max(a, b) == IF a > b THEN a ELSE b

NoCall == [t |-> 0, r1 |-> 0, r2 |-> 0, c |-> 0, f |-> 0, delayTime |-> 0]

\* one call of adaptiveDelay
AdaptiveDelayCall(t, r1, r2) ==
  /\ lastCall' = [t |-> t, r1 |-> r1, r2 |-> IF TooQuick(t) THEN r2 ELSE 0,
                  c |-> consecutiveRequests, f |-> failedRequests,
                  delayTime |-> DelayTime(consecutiveRequests, failedRequests, t, r1, r2)]
  /\ consecutiveRequests' = IF TooQuick(t) THEN consecutiveRequests + 1
                            ELSE Max(0, consecutiveRequests - 1)

DelayIdle ==
  /\ consecutiveRequests = 0
  /\ lastCall = NoCall

FnIdle ==
  /\ fnInput = <<>>
  /\ fnOutput = <<>>
  /\ fnDone = FALSE

NoDate == <<>>

NoUpdate == [success |-> FALSE, date |-> NoDate]

RunIdle ==
  /\ pcR = "idle"
  /\ envFile = NoDate
  /\ processEnv = NoDate
  /\ updateResult = NoUpdate
  /\ childTarget = NoDate
  /\ cycleResult = "running"
  /\ failure = "none"
  /\ cycleCount = 0
  /\ targetDates = <<>>
  /\ waited = 0

(***************************************************************************)
(* scrapeProductHunt (scraper.js).                                         *)
(***************************************************************************)
extractedDate == "2025-03-17"

\* what getProductsFromLeaderboard returns for a page
ListingResult(d) ==
  LET r == AddUnique(PrimaryEach(d, <<>>), <<>>, {}, TRUE)
  IN IF Len(r.uniq) < minExpectedProducts
     THEN AddUnique(ProductLinks(d), r.uniq, r.seen, FALSE).uniq
     ELSE r.uniq

\* listing pages of 0, 1, 2, ... anchors: in turn a product link without a name,
\* a product link, a post link with a heading, a repeat of the product link,
\* and another post link with a heading
BatchAnchor(i) ==
  IF i % 5 = 1 THEN [href |-> <<"/products/", ToString(i)>>, text |-> "", heading |-> ""]
  ELSE IF i % 5 = 2 THEN [href |-> <<"/products/", ToString(i)>>, text |-> "t", heading |-> ""]
  ELSE IF i % 5 = 4 THEN [href |-> <<"/products/", ToString(i - 2)>>, text |-> "t", heading |-> ""]
  ELSE [href |-> <<"/posts/", ToString(i)>>, text |-> "", heading |-> "h"]

BatchDocs == {[i \in 1..k |-> BatchAnchor(i)] : k \in 0..(maxProducts + 3)}

MakerRecord(product, details, maker) ==
  [productName |-> product.name,
   productUrl |-> product.url,
   productWebsite |-> details.productWebsite,
   makerName |-> maker.name,
   makerUrl |-> maker.url,
   email |-> maker.email,
   xId |-> maker.xId,
   linkedinUrl |-> maker.linkedinUrl,
   websiteEmail |-> details.websiteContactInfo.email,
   websiteTwitter |-> details.websiteContactInfo.twitter,
   websiteLinkedin |-> details.websiteContactInfo.linkedin,
   websiteContactPage |-> details.websiteContactInfo.website,
   extractedDate |-> extractedDate]

NoMaker == [name |-> "", url |-> <<>>, email |-> "", xId |-> "", linkedinUrl |-> ""]

ProductRecord_NoWebsite(product, details) == MakerRecord(product, EmptyDetails, NoMaker)

\* the record of a product without makers
ProductRecord(product, details) == MakerRecord(product, details, NoMaker)

\* the record pushed by the catch block
ErrorRecord(product) == ProductRecord(product, EmptyDetails)

RecordsOf_DropOnError(product, threw, details) ==
  IF threw THEN <<>>
  ELSE LET limitedMakers == Slice(details.makers, maxMakersPerProduct)
       IN IF Len(limitedMakers) > 0
          THEN [k \in 1..Len(limitedMakers) |-> MakerRecord(product, details, limitedMakers[k])]
          ELSE <<ProductRecord(product, details)>>

\* the records one loop iteration pushes: try block, or catch block
RecordsOf(product, threw, details) ==
  IF threw THEN <<ErrorRecord(product)>>
  ELSE LET limitedMakers == Slice(details.makers, maxMakersPerProduct)
       IN IF Len(limitedMakers) > 0
          THEN [k \in 1..Len(limitedMakers) |-> MakerRecord(product, details, limitedMakers[k])]
          ELSE <<ProductRecord(product, details)>>

BatchIdle ==
  /\ pcB = "idle"
  /\ productsToProcess = <<>>
  /\ bi = 0
  /\ allProductData = <<>>
  /\ failedRequests = 0

DetailsReturned ==
  /\ pcD' = "idle"
  /\ dPage' = "none"
  /\ rPage' = "none"
  /\ pgRedirect' = FALSE
  /\ websiteUrl' = <<>>
  /\ tried' = {}
  /\ yield' = [k \in 1..6 |-> <<>>]
  /\ bebopCount' = 0
  /\ headerBebopLink' = FALSE
  /\ productDetails' = EmptyDetails
  /\ retryCount' = 0
  /\ websiteContactInfo' = Null
  /\ websiteTry' = NoTry
  /\ makerDelayTime' = 0
  /\ makerLinks' = <<>>
  /\ makersToProcess' = <<>>
  /\ mi' = 0
  /\ dResult' = EmptyDetails
  /\ dFailed' = FALSE

\* products = await getProductsFromLeaderboard(...); the empty check; the slice
B_GetProducts ==
  /\ pcB = "getProducts"
  /\ \/ pcB' = "threw" /\ UNCHANGED <<productsToProcess, bi>>    \* rethrown by the outer catch
     \/ \E d \in BatchDocs :
          LET ps == ListingResult(d)
          IN IF Len(ps) = 0
             THEN pcB' = "returned" /\ UNCHANGED <<productsToProcess, bi>>
             ELSE /\ productsToProcess' = Slice(ps, maxProducts)
                  /\ bi' = 1
                  /\ pcB' = "loop"
  /\ UNCHANGED <<allProductData, failedRequests>>
  /\ UNCHANGED <<entry, listingVars, websiteVars, profileVars, detailsVars, delayVars, fnVars, runVars>>

\* for (let i = 0; i < productsToProcess.length; i++): the call of getProductDetails,
\* or the loop's end
B_Loop ==
  /\ pcB = "loop"
  /\ IF bi <= Len(productsToProcess)
     THEN DetailsCall /\ pcB' = "wait"
     ELSE UNCHANGED detailsVars /\ pcB' = "write"
  /\ UNCHANGED <<productsToProcess, bi, allProductData, failedRequests>>
  /\ UNCHANGED <<entry, listingVars, websiteVars, profileVars, delayVars, fnVars, runVars>>

\* getProductDetails has returned (the records are pushed) or thrown (the catch
\* block counts the failure and pushes the error record)
B_DetailsReturn ==
  /\ pcB = "wait"
  /\ pcD \in {"returned", "threw"}
  /\ allProductData' = allProductData \o RecordsOf(productsToProcess[bi], pcD = "threw", dResult)
  /\ failedRequests' = IF pcD = "threw" THEN failedRequests + 1 ELSE failedRequests
  /\ DetailsReturned
  /\ pcB' = "delay"
  /\ UNCHANGED <<productsToProcess, bi>>
  /\ UNCHANGED <<entry, listingVars, websiteVars, profileVars, delayVars, fnVars, runVars>>

\* if (i < productsToProcess.length - 1) await adaptiveDelay(); i++
B_AdaptiveDelay ==
  /\ pcB = "delay"
  /\ IF bi < Len(productsToProcess)
     THEN \E t \in TimesSinceLastRequest, r1 \in Random1000, r2 \in Random2000 :
            AdaptiveDelayCall(t, r1, r2)
     ELSE UNCHANGED delayVars
  /\ bi' = bi + 1
  /\ pcB' = "loop"
  /\ UNCHANGED <<productsToProcess, allProductData, failedRequests>>
  /\ UNCHANGED <<entry, listingVars, websiteVars, profileVars, detailsVars, fnVars, runVars>>

\* await csvWriter.writeRecords(allProductData)
B_WriteCsv ==
  /\ pcB = "write"
  /\ pcB' \in {"returned", "threw"}
  /\ UNCHANGED <<productsToProcess, bi, allProductData, failedRequests>>
  /\ UNCHANGED <<entry, listingVars, websiteVars, profileVars, detailsVars, delayVars, fnVars, runVars>>

BatchNext ==
  \/ B_GetProducts
  \/ B_Loop
  \/ B_DetailsReturn
  \/ B_AdaptiveDelay
  \/ B_WriteCsv

(***************************************************************************)
(* Specifications.                                                         *)
(***************************************************************************)
InitListing ==
  /\ entry = "listing" /\ ListingInit /\ WebsiteIdle /\ ProfileIdle /\ DetailsIdle
  /\ BatchIdle /\ DelayIdle /\ FnIdle /\ RunIdle

NextListing == ListingNext

SpecListing == InitListing /\ [][NextListing]_vars

\* every await settles: a pending step of the function is eventually taken
FairSpecListing == SpecListing /\ WF_vars(NextListing)

ListingIdle ==
  /\ lpc = "idle"
  /\ lPageOpen = FALSE
  /\ lastHeight = 0
  /\ scrollCount = 0
  /\ doc = <<>>
  /\ products = <<>>
  /\ uniqueProducts = <<>>
  /\ seenUrls = {}
  /\ nPrimary = 0

WebsiteUrls == {<<>>, <<"acme.com">>, <<"https://", "acme.com">>}

\* extractWebsiteContactInfo called on its own
InitWebsite ==
  /\ entry = "website"
  /\ ListingIdle
  /\ ProfileIdle
  /\ DetailsIdle
  /\ BatchIdle
  /\ DelayIdle
  /\ FnIdle
  /\ RunIdle
  /\ pcW = "start"
  /\ wPage = "none"
  /\ wUrl \in WebsiteUrls
  /\ navRetry = 0
  /\ timedOut = FALSE
  /\ navClock = 0
  /\ navAttempt = NoAttempt
  /\ wLoc = "blank"
  /\ contactPageUrl = <<>>
  /\ contactPageInfo = EmptyBundle
  /\ initialContactInfo = EmptyBundle
  /\ footerContactInfo = EmptyBundle
  /\ mergedContactInfo = EmptyBundle
  /\ wResult = EmptyBundle
  /\ wFailed = FALSE

SpecWebsite == InitWebsite /\ [][WebsiteNext]_vars

\* getProductDetails called on its own
InitDetails ==
  /\ entry = "details"
  /\ ListingIdle
  /\ WebsiteIdle
  /\ ProfileIdle
  /\ BatchIdle
  /\ DelayIdle
  /\ FnIdle
  /\ RunIdle
  /\ pcD = "newPage"
  /\ dPage = "none"
  /\ rPage = "none"
  /\ pgRedirect = FALSE
  /\ websiteUrl = <<>>
  /\ tried = {}
  /\ yield = [k \in 1..6 |-> <<>>]
  /\ bebopCount = 0
  /\ headerBebopLink = FALSE
  /\ productDetails = EmptyDetails
  /\ retryCount = 0
  /\ websiteContactInfo = Null
  /\ websiteTry = NoTry
  /\ makerDelayTime = 0
  /\ makerLinks = <<>>
  /\ makersToProcess = <<>>
  /\ mi = 0
  /\ dResult = EmptyDetails
  /\ dFailed = FALSE

NextDetails == DetailsNext \/ WebsiteNext \/ ProfileNext

SpecDetails == InitDetails /\ [][NextDetails]_vars

FairSpecDetails == SpecDetails /\ WF_vars(NextDetails)

\* a run of scrapeProductHunt
Init ==
  /\ entry = "batch"
  /\ ListingIdle
  /\ WebsiteIdle
  /\ ProfileIdle
  /\ DetailsIdle
  /\ pcB = "getProducts"
  /\ productsToProcess = <<>>
  /\ bi = 0
  /\ allProductData = <<>>
  /\ failedRequests = 0
  /\ DelayIdle
  /\ FnIdle
  /\ RunIdle

Next == BatchNext \/ DetailsNext \/ WebsiteNext \/ ProfileNext

Spec == Init /\ [][Next]_vars

\* adaptiveDelay called again and again, from any counters
MaxConsecutive == 7
MaxFailed == 2

InitDelay ==
  /\ entry = "delay"
  /\ ListingIdle
  /\ WebsiteIdle
  /\ ProfileIdle
  /\ DetailsIdle
  /\ pcB = "idle"
  /\ productsToProcess = <<>>
  /\ bi = 0
  /\ allProductData = <<>>
  /\ failedRequests \in 0..MaxFailed
  /\ consecutiveRequests \in 0..MaxConsecutive
  /\ lastCall = NoCall
  /\ FnIdle
  /\ RunIdle

A_AdaptiveDelay ==
  /\ consecutiveRequests < MaxConsecutive
  /\ \E t \in TimesSinceLastRequest, r1 \in Random1000, r2 \in Random2000 :
       AdaptiveDelayCall(t, r1, r2)
  /\ UNCHANGED <<entry, listingVars, websiteVars, profileVars, detailsVars, batchVars, fnVars, runVars>>

SpecDelay == InitDelay /\ [][A_AdaptiveDelay]_vars

\* extractTwitterHandle called on its own.  A URL is the sequence of its
\* pieces: the separators "/", "?", "#", "." and the texts between them.
MaxHandleUrlLen == 5

UrlTokens == {"/", "?", "#", ".", "x", "com", "acme_io"}

HandleUrlWithQuery ==
  <<"https:", "/", "/", "x", ".", "com", "/", "acme_io", "?", "ref=ph">>

BareDomainUrl == <<"https:", "/", "/", "x", ".", "com", "/">>

HandleUrls ==
  SeqsUpTo(UrlTokens, MaxHandleUrlLen)
    \cup {HandleUrlWithQuery, BareDomainUrl,
          <<"https:", "/", "/", "twitter", ".", "com">>,
          <<"https:", "/", "/", "twitter", ".", "com", "/", "acme_io", "/", "#", "top">>}

EndsWith(s, tok) == Len(s) > 0 /\ s[Len(s)] = tok

\* s.split(sep)[0]
SplitFirst_Whole(s, sep) == s

SplitFirst(s, sep) ==
  IF Includes(s, sep)
  THEN SubSeq(s, 1, (CHOOSE i \in 1..Len(s) :
                        s[i] = sep /\ \A j \in 1..(i - 1) : s[j] # sep) - 1)
  ELSE s

\* parts = s.split(sep); parts[parts.length - 1]
SplitLast(s, sep) ==
  IF Includes(s, sep)
  THEN SubSeq(s, (CHOOSE i \in 1..Len(s) :
                     s[i] = sep /\ \A j \in (i + 1)..Len(s) : s[j] # sep) + 1, Len(s))
  ELSE s

extractTwitterHandle(url) ==
  IF url = <<>> THEN <<>>
  ELSE LET stripped == SplitFirst(SplitFirst(url, "?"), "#")
           trimmed  == IF EndsWith(stripped, "/")
                       THEN SubSeq(stripped, 1, Len(stripped) - 1)
                       ELSE stripped
           handle   == SplitLast(trimmed, "/")
       IN IF /\ handle # <<>>
             /\ handle # <<"twitter", ".", "com">>
             /\ handle # <<"x", ".", "com">>
             /\ ~Includes(handle, ".")
          THEN handle
          ELSE <<>>

InitTwitterHandle ==
  /\ entry = "twitterHandle"
  /\ ListingIdle
  /\ WebsiteIdle
  /\ ProfileIdle
  /\ DetailsIdle
  /\ BatchIdle
  /\ DelayIdle
  /\ RunIdle
  /\ fnInput \in HandleUrls
  /\ fnOutput = <<>>
  /\ fnDone = FALSE

notFn == <<entry, listingVars, websiteVars, profileVars, detailsVars, batchVars, delayVars, runVars>>

T_ExtractTwitterHandle ==
  /\ entry = "twitterHandle"
  /\ ~fnDone
  /\ fnOutput' = extractTwitterHandle(fnInput)
  /\ fnDone' = TRUE
  /\ UNCHANGED <<fnInput, notFn>>

SpecTwitterHandle == InitTwitterHandle /\ [][T_ExtractTwitterHandle]_vars

\* The email of a profile page found in its text (extractContactInfo).  A
\* text is the sequence of its pieces: words of letters, and single
\* characters.  No two words of WordTokens put together spell an ending of
\* the lists below.
MaxPageTextLen == 6

WordTokens == {"contact", "example", "com", "co", "uk", "Visit", "br"}

\* the pieces of [a-zA-Z0-9._-]
EmailTokens == WordTokens \cup {".", "-"}

PageTextTokens == {"contact", "com", "Visit", ".", "@", "<"}

AddressThenMarkup ==
  <<"contact", "@", "example", ".", "com", "<", "br", "/", ">", "Visit">>

AddressThenGluedWord == <<"contact", "@", "example", ".", "com", "Visit">>

PageTexts ==
  SeqsUpTo(PageTextTokens, MaxPageTextLen)
    \cup {AddressThenMarkup, AddressThenGluedWord,
          <<"contact", "@", "example", ".", "co", ".", "uk">>,
          <<"contact", ".", "co", "@", "example", ".", "com">>,
          <<"contact", "-", "co", "@", "example", ".", "uk", " ", "Visit">>}

\* document.body.innerText, read only when the text gave no email
InnerTexts ==
  {<<>>,
   <<"contact", "@", "example", ".", "com", " ", "Visit">>,
   <<"contact", "@", "example", ".", "uk", ".", "Visit">>,
   AddressThenGluedWord}

\* the endings of domainEndingRegex that are words of WordTokens: the long
\* list of the text scan, the short list of the live scan and of
\* nonEmailCharRegex
TextDomainEndings == {"com", "co", "uk"}

LiveDomainEndings == {"com", "co"}

\* the word tok begins with the letters of pre, for the words of WordTokens
WordStartsWith(tok, pre) ==
  \/ tok = pre
  \/ <<tok, pre>> \in {<<"com", "co">>, <<"contact", "co">>}

MinOf(S) == CHOOSE i \in S : \A j \in S : i <= j

\* the run of [a-zA-Z0-9._-] that ends at i, and the one that starts at i
RunStart(text, i) ==
  MinOf({j \in 1..(i + 1) : \A k \in j..i : text[k] \in EmailTokens})

RunEnd(text, i) ==
  MinOf({j \in (i - 1)..Len(text) :
           /\ \A k \in i..j : text[k] \in EmailTokens
           /\ j = Len(text) \/ text[j + 1] \notin EmailTokens})

\* the "@" of a match of emailRegex: pieces of the class before it, and after
\* it a run of the class with a "." that is neither its first nor its last
\* piece
EmailAts(text) ==
  {k \in 1..Len(text) :
     /\ text[k] = "@"
     /\ RunStart(text, k - 1) <= k - 1
     /\ \E q \in (k + 2)..(RunEnd(text, k + 1) - 1) : text[q] = "."}

\* text.match(emailRegex)[0], or the empty text for no match
FirstEmailMatch(text) ==
  IF EmailAts(text) = {} THEN <<>>
  ELSE LET k == MinOf(EmailAts(text))
       IN SubSeq(text, RunStart(text, k - 1), RunEnd(text, k + 1))

\* the places of rawEmail where \.(ending)\b matches
DomainEndingMatches(rawEmail, endings) ==
  {q \in 1..(Len(rawEmail) - 1) :
     /\ rawEmail[q] = "."
     /\ rawEmail[q + 1] \in endings
     /\ q + 1 = Len(rawEmail) \/ rawEmail[q + 2] \notin WordTokens}

\* rawEmail.indexOf("." + ending)
IndexOfEnding(rawEmail, ending) ==
  MinOf({q \in 1..(Len(rawEmail) - 1) :
           rawEmail[q] = "." /\ WordStartsWith(rawEmail[q + 1], ending)})

\* the places where \.(ending)([^a-zA-Z0-9._-]) matches
NonEmailCharMatches(rawEmail) ==
  {q \in 1..(Len(rawEmail) - 2) :
     /\ rawEmail[q] = "."
     /\ rawEmail[q + 1] \in LiveDomainEndings
     /\ rawEmail[q + 2] \notin EmailTokens}

DomainEndingMatches_Glued(rawEmail, endings) ==
  {q \in 1..(Len(rawEmail) - 1) : rawEmail[q] = "." /\ rawEmail[q + 1] \in endings}

CleanEmail(rawEmail, endings) ==
  IF DomainEndingMatches(rawEmail, endings) # {}
  THEN LET ending == rawEmail[MinOf(DomainEndingMatches(rawEmail, endings)) + 1]
       IN SubSeq(rawEmail, 1, IndexOfEnding(rawEmail, ending)) \o <<ending>>
  ELSE IF NonEmailCharMatches(rawEmail) # {}
  THEN LET char == rawEmail[MinOf(NonEmailCharMatches(rawEmail)) + 2]
       IN SubSeq(rawEmail, 1, MinOf({q \in 1..Len(rawEmail) : rawEmail[q] = char}) - 1)
  ELSE rawEmail

NoEmail == [scan |-> "none", rawEmail |-> <<>>, email |-> <<>>]

\* the text scan, then the live scan when the text scan left email empty
EmailOfPage(pageText, innerText) ==
  IF FirstEmailMatch(pageText) # <<>>
  THEN [scan     |-> "text",
        rawEmail |-> FirstEmailMatch(pageText),
        email    |-> CleanEmail(FirstEmailMatch(pageText), TextDomainEndings)]
  ELSE IF FirstEmailMatch(innerText) # <<>>
  THEN [scan     |-> "live",
        rawEmail |-> FirstEmailMatch(innerText),
        email    |-> CleanEmail(FirstEmailMatch(innerText), LiveDomainEndings)]
  ELSE NoEmail

InitEmail ==
  /\ entry = "email"
  /\ ListingIdle
  /\ WebsiteIdle
  /\ ProfileIdle
  /\ DetailsIdle
  /\ BatchIdle
  /\ DelayIdle
  /\ RunIdle
  /\ fnInput \in PageTexts
  /\ fnOutput = NoEmail
  /\ fnDone = FALSE

E_ExtractEmail ==
  /\ entry = "email"
  /\ ~fnDone
  /\ \E innerText \in InnerTexts : fnOutput' = EmailOfPage(fnInput, innerText)
  /\ fnDone' = TRUE
  /\ UNCHANGED <<fnInput, notFn>>

SpecEmail == InitEmail /\ [][E_ExtractEmail]_vars

\* uploadCSVToGoogleSheets called on its own, from the parsed CSV: a header
\* row and up to MaxSheetRows rows of three cells.
MaxSheetRows == 2

\* the headers with one of emailFieldNames in them
EmailHeaders == {"Email", "Website Email"}

SheetHeaders ==
  {<<"Product Name", "Email", "Website Email">>,
   <<"Product Name", "Product Website", "Maker Name">>}

SheetCells == {"", " ", "good@acme.com", "bad@acme.com", "acme"}

SheetRows == {<<"p", c1, c2>> : c1 \in SheetCells, c2 \in SheetCells}

\* parseCSV(csvContent)
SheetData ==
  {<<h>> \o rows : h \in SheetHeaders, rows \in SeqsUpTo(SheetRows, MaxSheetRows)}

Trim(cell) == IF cell = " " THEN "" ELSE cell

\* the indices findEmailColumns returns
findEmailColumns(headers) == {c \in 1..Len(headers) : headers[c] \in EmailHeaders}

\* verificationResult.isValid: the format test, then the answer of the
\* verifier, which is "valid" for good@acme.com when it can be reached
verifyEmail(email, apiUp) ==
  /\ email \in {"good@acme.com", "bad@acme.com"}
  /\ apiUp
  /\ email = "good@acme.com"

\* emailStatus after the columns from c on, when it is st before them
RECURSIVE EmailStatus(_, _, _, _, _)
EmailStatus(row, headers, c, apiUp, st) ==
  IF c > Len(headers) THEN st
  ELSE IF c \notin findEmailColumns(headers) \/ c > Len(row) \/ Trim(row[c]) = ""
  THEN EmailStatus(row, headers, c + 1, apiUp, st)
  ELSE IF verifyEmail(Trim(row[c]), apiUp) THEN "Valid"
  ELSE EmailStatus(row, headers, c + 1, apiUp, "Invalid")

InstantlyStatus(emailStatus, pushResult) ==
  IF emailStatus = "Valid"
  THEN IF pushResult THEN "Sent" ELSE "Failed"
  ELSE "Not Sent"

\* the rows from i on, as pushed to processedData: every row is pushed
RECURSIVE ProcessRows(_, _, _, _)
ProcessRows(data, i, apiUp, pushOk) ==
  IF i > Len(data) THEN <<>>
  ELSE LET emailStatus == EmailStatus(data[i], data[1], 1, apiUp, "No Email")
           rowWithVerification ==
             data[i] \o <<emailStatus, InstantlyStatus(emailStatus, pushOk[i - 1])>>
       IN <<rowWithVerification>> \o ProcessRows(data, i + 1, apiUp, pushOk)

verifyAndFilterData(data, apiUp, pushOk) ==
  IF Len(data) < 2 THEN data
  ELSE IF findEmailColumns(data[1]) = {} THEN data
  ELSE <<data[1] \o <<"Email Verification Status", "Instantly Status">>>>
         \o ProcessRows(data, 2, apiUp, pushOk)

NotUploaded == [appended |-> FALSE, values |-> <<>>, apiUp |-> FALSE, returned |-> FALSE]

InitSheets ==
  /\ entry = "sheets"
  /\ ListingIdle
  /\ WebsiteIdle
  /\ ProfileIdle
  /\ DetailsIdle
  /\ BatchIdle
  /\ DelayIdle
  /\ RunIdle
  /\ fnInput \in SheetData
  /\ fnOutput = NotUploaded
  /\ fnDone = FALSE

\* uploadCSVToGoogleSheets: values is what appendToSheet was called with
U_UploadCSVToGoogleSheets ==
  /\ entry = "sheets"
  /\ ~fnDone
  /\ \E apiUp \in BOOLEAN, pushOk \in [1..MaxSheetRows -> BOOLEAN], sheetUp \in BOOLEAN :
       LET verifiedData == verifyAndFilterData(fnInput, apiUp, pushOk)
       IN fnOutput' = IF Len(verifiedData) <= 1
                      THEN [NotUploaded EXCEPT !.apiUp = apiUp]
                      ELSE [appended |-> TRUE, values |-> verifiedData,
                            apiUp |-> apiUp, returned |-> sheetUp]
  /\ fnDone' = TRUE
  /\ UNCHANGED <<fnInput, notFn>>

SpecSheets == InitSheets /\ [][U_UploadCSVToGoogleSheets]_vars


(***************************************************************************)
(* The run loop (continuous-scraper.js) and the single run of cron         *)
(* (cron-scraper.js).  A date is <<year, month, day>>, as the three        *)
(* numbers of the TARGET_URL .../leaderboard/daily/year/month/day/all.     *)
(***************************************************************************)
MaxCycles == 3

\* waitMinutes * 60 * 1000
cooldown == 300000

IsLeap(y) == (y % 4 = 0 /\ y % 100 # 0) \/ y % 400 = 0

DaysInMonth(y, m) ==
  IF m = 2 THEN (IF IsLeap(y) THEN 29 ELSE 28)
  ELSE IF m \in {4, 6, 9, 11} THEN 30 ELSE 31

\* the date left unchanged
PrevDay_Same(t) == t

\* new Date(year, month - 1, day), then setDate(getDate() - 1)
PrevDay(t) ==
  IF t[3] > 1 THEN <<t[1], t[2], t[3] - 1>>
  ELSE IF t[2] > 1 THEN <<t[1], t[2] - 1, DaysInMonth(t[1], t[2] - 1)>>
  ELSE <<t[1] - 1, 12, 31>>

\* new Date() of the first cycle
Today == <<2025, 3, 18>>

\* the TARGET_URL dates .env can start with
StartDates == {<<2025, 3, 17>>, <<2025, 3, 2>>, <<2024, 3, 1>>, <<2025, 1, 2>>}

\* the date updateTargetUrl writes
NewTargetDate(file) == IF file = NoDate THEN PrevDay(Today) ELSE PrevDay(file)

\* dotenv.config(): a variable of .env is set only if process.env lacks it
DotenvConfig(env, file) == IF env # NoDate THEN env ELSE file

\* the fallback of index.js
DefaultTarget == <<2025, 3, 17>>

\* index.js started with the environment env: dotenv.config(), then
\* process.env.TARGET_URL || the default
IndexTargetUrl(env, file) ==
  IF DotenvConfig(env, file) # NoDate THEN DotenvConfig(env, file) ELSE DefaultTarget

\* a failing pass stops the loop
AfterCycle_StopOnFailure(ok) == IF ok THEN "cleanup" ELSE "exited"

\* where a pass that returned ok goes: the loop cleans up and waits,
\* main of cron-scraper.js ends the process
AfterCycle(ok) == IF entry = "continuous" THEN "cleanup" ELSE "exited"

EndCycle(ok, why) ==
  /\ cycleResult' = IF ok THEN "succeeded" ELSE "failed"
  /\ failure' = why
  /\ pcR' = AfterCycle(ok)

notRun == <<entry, listingVars, websiteVars, profileVars, detailsVars, batchVars, delayVars,
            fnVars>>

\* runScrapeCycle / main: updateTargetUrl()
R_UpdateTargetUrl ==
  /\ pcR = "cycle"
  /\ cycleCount < MaxCycles
  /\ cycleCount' = cycleCount + 1
  /\ childTarget' = NoDate
  /\ waited' = 0
  /\ \/ /\ envFile' = NewTargetDate(envFile)
        /\ updateResult' = [success |-> TRUE, date |-> NewTargetDate(envFile)]
        /\ targetDates' = Append(targetDates, NewTargetDate(envFile))
        /\ cycleResult' = "running"
        /\ failure' = "none"
        /\ pcR' = "reload"
     \/ \* readFileSync or writeFileSync throws
        /\ updateResult' = NoUpdate
        /\ EndCycle(FALSE, "updateTargetUrl")
        /\ UNCHANGED <<envFile, targetDates>>
  /\ UNCHANGED <<processEnv, notRun>>

\* dotenv.config() after the update
R_DotenvConfig ==
  /\ pcR = "reload"
  /\ processEnv' = DotenvConfig(processEnv, envFile)
  /\ pcR' = "child"
  /\ UNCHANGED <<envFile, updateResult, childTarget, cycleResult, failure, cycleCount,
                 targetDates, waited, notRun>>

\* execSync('node index.js'): the child has the environment of the process
R_ExecSync ==
  /\ pcR = "child"
  /\ childTarget' = IndexTargetUrl(processEnv, envFile)
  /\ \/ \E sheetId \in BOOLEAN :
          IF sheetId
          THEN pcR' = "export" /\ UNCHANGED <<cycleResult, failure>>
          ELSE EndCycle(TRUE, "none")
     \/ \* the child exits with a non-zero code
        EndCycle(FALSE, "child")
  /\ UNCHANGED <<envFile, processEnv, updateResult, cycleCount, targetDates, waited, notRun>>

\* findLatestCSV and uploadCSVToGoogleSheets
R_Export ==
  /\ pcR = "export"
  /\ \/ \* no CSV file, or the upload went through
        EndCycle(TRUE, "none")
     \/ \* the upload throws: caught, the pass goes on
        EndCycle(TRUE, "export")
     \/ \* findLatestCSV throws
        EndCycle(FALSE, "findLatestCSV")
  /\ UNCHANGED <<envFile, processEnv, updateResult, childTarget, cycleCount, targetDates,
                 waited, notRun>>

\* cleanupMemory(), then the wait of the loop
R_CleanupAndWait ==
  /\ entry = "continuous"
  /\ pcR = "cleanup"
  /\ waited' = cooldown
  /\ pcR' = "cycle"
  /\ UNCHANGED <<envFile, processEnv, updateResult, childTarget, cycleResult, failure,
                 cycleCount, targetDates, notRun>>

\* cron starts cron-scraper.js again: a new process, dotenv.config() at load
R_CronStart ==
  /\ entry = "cron"
  /\ pcR = "exited"
  /\ processEnv' = DotenvConfig(NoDate, envFile)
  /\ pcR' = "cycle"
  /\ UNCHANGED <<envFile, updateResult, childTarget, cycleResult, failure, cycleCount,
                 targetDates, waited, notRun>>

RunNext ==
  \/ R_UpdateTargetUrl
  \/ R_DotenvConfig
  \/ R_ExecSync
  \/ R_Export
  \/ R_CleanupAndWait
  \/ R_CronStart

\* the process has loaded .env with dotenv.config() at line 12
InitRun ==
  /\ entry \in {"continuous", "cron"}
  /\ ListingIdle
  /\ WebsiteIdle
  /\ ProfileIdle
  /\ DetailsIdle
  /\ BatchIdle
  /\ DelayIdle
  /\ FnIdle
  /\ pcR = "cycle"
  /\ envFile \in StartDates \cup {NoDate}
  /\ processEnv = DotenvConfig(NoDate, envFile)
  /\ updateResult = NoUpdate
  /\ childTarget = NoDate
  /\ cycleResult = "running"
  /\ failure = "none"
  /\ cycleCount = 0
  /\ targetDates = <<>>
  /\ waited = 0

SpecRun == InitRun /\ [][RunNext]_vars

\* every await of the loop settles and the child ends
FairSpecRun == SpecRun /\ WF_vars(RunNext)

(***************************************************************************)
(* The twitter field of extractContactInfoFromPage                         *)
(* (websiteContactExtractor.js): one link of the page, classified and      *)
(* handed to extractSocialHandle.  A link is its href, as the sequence of  *)
(* its pieces, and whether its text or inner HTML names Twitter.           *)
(***************************************************************************)
MaxSocialUrlLen == 4

SocialTokens == {"/", "?", "#", ".", "x", "box", "com", "twitter", "acme_io"}

SocialHrefs ==
  SeqsUpTo(SocialTokens, MaxSocialUrlLen)
    \cup {<<"https:", "/", "/", "twitter", ".", "com">>,
          <<"https:", "/", "/", "x", ".", "com", "/">>,
          <<"https:", "/", "/", "x", ".", "com", "/", "acme_io", "?", "ref=ph">>,
          <<"https:", "/", "/", "acme", ".", "io", "/", "news">>}

SocialLinks == [href : SocialHrefs, named : BOOLEAN]

\* url.includes('twitter.com') || url.includes('x.com'): the pieces "x" and
\* "box" end with x
ContainsDomain(url) ==
  \E i \in 1..(Len(url) - 2) :
    /\ url[i] \in {"twitter", "x", "box"}
    /\ url[i + 1] = "."
    /\ url[i + 2] = "com"

extractSocialHandle(url) ==
  IF url = <<>> THEN <<>>
  ELSE IF ~ ContainsDomain(url) THEN url
  ELSE LET stripped == SplitFirst(SplitFirst(url, "?"), "#")
           trimmed  == IF EndsWith(stripped, "/")
                       THEN SubSeq(stripped, 1, Len(stripped) - 1)
                       ELSE stripped
           handle   == SplitLast(trimmed, "/")
       IN IF /\ handle # <<>>
             /\ ~ Includes(handle, ".")
             /\ handle # <<"twitter", ".", "com">>
             /\ handle # <<"x", ".", "com">>
          THEN handle
          ELSE trimmed

\* the test of the link loop, by href, link text or inner HTML
ClassifiedTwitter(link) == ContainsDomain(link.href) \/ link.named

\* twitter after the link, from twitter = ''
TwitterOfLink(link) ==
  IF link.href = <<>> THEN <<>>
  ELSE IF ClassifiedTwitter(link) THEN extractSocialHandle(link.href)
  ELSE <<>>

InitSocial ==
  /\ entry = "social"
  /\ ListingIdle
  /\ WebsiteIdle
  /\ ProfileIdle
  /\ DetailsIdle
  /\ BatchIdle
  /\ DelayIdle
  /\ RunIdle
  /\ fnInput \in SocialLinks
  /\ fnOutput = <<>>
  /\ fnDone = FALSE

S_TwitterOfLink ==
  /\ entry = "social"
  /\ ~fnDone
  /\ fnOutput' = TwitterOfLink(fnInput)
  /\ fnDone' = TRUE
  /\ UNCHANGED <<fnInput, notFn>>

SpecSocial == InitSocial /\ [][S_TwitterOfLink]_vars

(***************************************************************************)
(* The scroll loop alone: the listing function up to the end of the loop.  *)
(***************************************************************************)
NextScroll ==
  \/ L_NewPage
  \/ L_Goto
  \/ L_ScrollStep
  \/ L_ScrollExit

SpecScroll == InitListing /\ [][NextScroll]_vars

\* every await settles: a pending step of the loop is eventually taken
FairSpecScroll == SpecScroll /\ WF_vars(NextScroll)

(***************************************************************************)
(* C1: once getProductDetails, extractContactInfo or                       *)
(* extractWebsiteContactInfo has returned or thrown, no page it opened     *)
(* (product page, redirect page, profile page, website page) is still open.*)
(***************************************************************************)
C1_PagesClosedOnExit ==
  /\ pcD \in {"returned", "threw"} => dPage # "open" /\ rPage # "open"
  /\ pcP \in {"returned", "threw"} => pPage # "open"
  /\ pcW \in {"returned", "threw"} => wPage # "open"

(***************************************************************************)
(* C2: every processed product of productsToProcess has at least one       *)
(* record in allProductData, the records follow the product order, and a   *)
(* product whose getProductDetails threw adds exactly one record: its name *)
(* and url, every website, maker and contact field empty.                  *)
(***************************************************************************)
Processed ==
  IF pcB \in {"loop", "wait"} THEN bi - 1
  ELSE IF pcB = "delay" THEN bi
  ELSE Len(productsToProcess)

RecordsFor(i) ==
  {k \in DOMAIN allProductData : allProductData[k].productUrl = productsToProcess[i].url}

C2_BatchNeverAborted ==
  /\ [](/\ \A i \in 1..Processed : RecordsFor(i) # {}
        /\ \A k \in DOMAIN allProductData :
             \E i \in 1..Processed :
               k \in RecordsFor(i) /\ allProductData[k].productName = productsToProcess[i].name
        /\ \A i, j \in 1..Processed :
             i < j => \A a \in RecordsFor(i), b \in RecordsFor(j) : a < b)
  /\ [][(pcB = "wait" /\ pcD = "threw") =>
          allProductData' = Append(allProductData,
            [productName |-> productsToProcess[bi].name,
             productUrl |-> productsToProcess[bi].url,
             productWebsite |-> <<>>,
             makerName |-> "", makerUrl |-> <<>>, email |-> "", xId |-> "",
             linkedinUrl |-> "",
             websiteEmail |-> "", websiteTwitter |-> "", websiteLinkedin |-> "",
             websiteContactPage |-> "",
             extractedDate |-> extractedDate])]_vars

\* two products: the first threw and left one empty record, the second has two makers
C2_Witness ==
  /\ pcB = "returned"
  /\ Len(productsToProcess) = 2
  /\ failedRequests = 1
  /\ Len(allProductData) = 3
  /\ allProductData[1].productUrl = productsToProcess[1].url
  /\ allProductData[1].makerName = ""
  /\ allProductData[2].makerName # ""
  /\ allProductData[3].productUrl = productsToProcess[2].url

(***************************************************************************)
(* C3: getProductDetails never throws, and a run in which the outer catch  *)
(* block ran returns the all-empty details.                                *)
(***************************************************************************)
C3_DetailsNeverThrows ==
  /\ pcD # "threw"
  /\ pcD = "returned" /\ dFailed => dResult = EmptyDetails

(***************************************************************************)
(* C4: extractContactInfo and extractWebsiteContactInfo never throw, and   *)
(* return the all-empty result when something failed.                      *)
(***************************************************************************)
C4_ExtractorsTotal ==
  /\ pcP # "threw"
  /\ pcW # "threw"
  /\ pcP = "returned" /\ pFailed => pResult = EmptyContact
  /\ pcW = "returned" /\ wFailed => wResult = EmptyBundle

(***************************************************************************)
(* C5: a strategy is evaluated only after every earlier strategy was       *)
(* evaluated and yielded the empty url; with a visit button and a redirect *)
(* link on the page, the website is strategy 1's url, strategy 2 is not    *)
(* evaluated and no redirect page is opened.                               *)
(***************************************************************************)
C5_CascadeInOrder ==
  /\ [](/\ \A k \in tried : \A j \in 1..(k-1) : j \in tried /\ yield[j] = <<>>
        /\ (yield[1] # <<>> /\ pgRedirect) =>
             /\ 2 \notin tried
             /\ rPage = "none"
             /\ websiteUrl = yield[1])
  /\ [][(pcD = "website" /\ yield[1] # <<>>) =>
          productDetails'.productWebsite = yield[1]]_vars

\* the cascade is over: the visit button gave the url, on a page with a redirect link
C5_Witness ==
  /\ pcD = "website"
  /\ pgRedirect
  /\ yield[1] # <<>>
  /\ tried = {1}

(***************************************************************************)
(* C6, as stated: a bebop.ai url found in the text is kept exactly when    *)
(* the domain is mentioned at least 3 times or linked in the header area,  *)
(* and with 2 mentions and no header link the resolved website is empty.   *)
(***************************************************************************)
GuardRan == bebopCount > 0

BundleFields == {"email", "twitter", "linkedin", "website"}

FirstNonEmpty(m, c, f, i) ==
  /\ c # "" => m = c
  /\ (c = "" /\ f # "") => m = f
  /\ (c = "" /\ f = "" /\ i # "") => m = i
  /\ m = "" => (c = "" /\ f = "" /\ i = "")

C7_MergePrecedence ==
  pcW = "return" =>
    \A fld \in BundleFields :
      /\ FirstNonEmpty(mergedContactInfo[fld], contactPageInfo[fld],
                       footerContactInfo[fld], initialContactInfo[fld])
      /\ (fld # "email" /\ contactPageInfo[fld] = "" /\ footerContactInfo[fld] = ""
            /\ initialContactInfo[fld] = "") => mergedContactInfo[fld] = ""

\* the example of the claim
C7_Witness ==
  /\ pcW = "return"
  /\ contactPageInfo.email = ""
  /\ footerContactInfo.email = "a@b.com"
  /\ initialContactInfo.email = "c@d.com"
  /\ mergedContactInfo.email = "a@b.com"

(***************************************************************************)
(* C8: the scroll loop performs at most maxScrolls steps and, once         *)
(* entered, is always left again, whatever heights are measured.           *)
(***************************************************************************)
C8_ScrollTerminates ==
  /\ [](scrollCount <= maxScrolls)
  /\ (lpc = "scroll") ~> (lpc # "scroll")

\* the ceiling is reached with the loop still running: the 50th step did not break
C8_Witness == lpc = "scroll" /\ scrollCount = maxScrolls

(***************************************************************************)
(* C9: the returned sequence holds no url twice; the primary-pass entities *)
(* come first, in document order of their first qualifying anchor, then    *)
(* the fallback entities not already seen, in document order.              *)
(***************************************************************************)
PrimaryQualifies(a) == PrimarySelector(a) /\ PrimaryName(a) # ""

FallbackQualifies(a) == FallbackSelector(a) /\ FallbackName(a) # ""

FirstPrimaryIdx(u) ==
  CHOOSE k \in DOMAIN doc :
    /\ PrimaryQualifies(doc[k]) /\ PrimaryUrl(doc[k]) = u
    /\ \A m \in 1..(k-1) : ~ (PrimaryQualifies(doc[m]) /\ PrimaryUrl(doc[m]) = u)

FirstFallbackIdx(u) ==
  CHOOSE k \in DOMAIN doc :
    /\ FallbackQualifies(doc[k]) /\ AbsoluteHref(doc[k].href) = u
    /\ \A m \in 1..(k-1) : ~ (FallbackQualifies(doc[m]) /\ AbsoluteHref(doc[m].href) = u)

ListingResultReady == lpc \in {"finally", "returned"}

FallbackRan == nPrimary < minExpectedProducts

C9_UniqueFirstSeenOrder ==
  ListingResultReady =>
    LET n == Len(uniqueProducts)
        url(i) == uniqueProducts[i].url
    IN /\ \A i, j \in 1..n : i # j => url(i) # url(j)
       /\ nPrimary <= n
       \* the first nPrimary entries are exactly the primary-pass urls, in document order
       /\ \A i \in 1..nPrimary :
            \E k \in DOMAIN doc : PrimaryQualifies(doc[k]) /\ PrimaryUrl(doc[k]) = url(i)
       /\ \A k \in DOMAIN doc :
            PrimaryQualifies(doc[k]) => \E i \in 1..nPrimary : url(i) = PrimaryUrl(doc[k])
       /\ \A i, j \in 1..nPrimary :
            i < j => FirstPrimaryIdx(url(i)) < FirstPrimaryIdx(url(j))
       \* the rest are the fallback urls not seen before, in document order
       /\ \A i \in (nPrimary+1)..n :
            \E k \in DOMAIN doc : FallbackQualifies(doc[k]) /\ AbsoluteHref(doc[k].href) = url(i)
       /\ FallbackRan =>
            \A k \in DOMAIN doc :
              FallbackQualifies(doc[k]) => \E i \in 1..n : url(i) = AbsoluteHref(doc[k].href)
       /\ ~ FallbackRan => n = nPrimary
       /\ \A i, j \in (nPrimary+1)..n :
            i < j => FirstFallbackIdx(url(i)) < FirstFallbackIdx(url(j))

\* both passes contributed, and a fallback link repeated a url of the primary pass
C9_Witness ==
  /\ lpc = "returned"
  /\ nPrimary >= 1
  /\ Len(uniqueProducts) > nPrimary
  /\ \E k \in DOMAIN doc :
       /\ FallbackQualifies(doc[k])
       /\ \E i \in 1..nPrimary : uniqueProducts[i].url = AbsoluteHref(doc[k].href)

(***************************************************************************)
(* C10: every returned entity has a url of the product path pattern        *)
(* https://www.producthunt.com/products/..., from either pass.             *)
(***************************************************************************)
IsProductUrl(u) == Len(u) >= 2 /\ u[1] = PHOrigin /\ u[2] = "/products/"

C10_AllUrlsProductPattern ==
  lpc = "returned" => \A i \in DOMAIN uniqueProducts : IsProductUrl(uniqueProducts[i].url)

(***************************************************************************)
(* C11: a product whose details come back with no makers adds exactly one  *)
(* record: the maker fields empty, the product name and url of the         *)
(* listing, and the website and website contact fields of the details.     *)
(***************************************************************************)
C11_NoMakersOneRecord ==
  [][(pcB = "wait" /\ pcD = "returned" /\ dResult.makers = <<>>) =>
       allProductData' = Append(allProductData,
         [productName |-> productsToProcess[bi].name,
          productUrl |-> productsToProcess[bi].url,
          productWebsite |-> dResult.productWebsite,
          makerName |-> "", makerUrl |-> <<>>, email |-> "", xId |-> "",
          linkedinUrl |-> "",
          websiteEmail |-> dResult.websiteContactInfo.email,
          websiteTwitter |-> dResult.websiteContactInfo.twitter,
          websiteLinkedin |-> dResult.websiteContactInfo.linkedin,
          websiteContactPage |-> dResult.websiteContactInfo.website,
          extractedDate |-> extractedDate])]_vars

\* the first product came back without makers, with a website and its contact email
C11_Witness ==
  /\ pcB = "delay"
  /\ bi = 1
  /\ failedRequests = 0
  /\ Len(allProductData) = 1
  /\ allProductData[1].makerName = ""
  /\ allProductData[1].makerUrl = <<>>
  /\ allProductData[1].productWebsite # <<>>
  /\ allProductData[1].websiteEmail # ""

(***************************************************************************)
(* C12: every record of allProductData has a non-empty productName and a   *)
(* non-empty productUrl, whichever pass listed the product and whichever   *)
(* path built the record.                                                  *)
(***************************************************************************)
C12_RecordsNamed ==
  \A k \in DOMAIN allProductData :
    allProductData[k].productName # "" /\ allProductData[k].productUrl # <<>>

\* a primary-pass product with a maker record and a fallback-pass product whose
\* processing threw, from a page that also has a product link without a name
C12_Witness ==
  /\ pcB = "returned"
  /\ failedRequests = 1
  /\ Len(allProductData) >= 2
  /\ allProductData[1].makerName # ""
  /\ Includes(allProductData[1].productUrl, "/products/")
  /\ Includes(allProductData[Len(allProductData)].productUrl, "/posts/")
  /\ allProductData[Len(allProductData)].productWebsite = <<>>

(***************************************************************************)
(* C13: in the makers of a product no unconfirmed maker precedes a         *)
(* confirmed one and makers of equal status keep the order of their first  *)
(* links on the page; the makers that were processed keep this order in    *)
(* the returned details; each returned maker gives one record, in the same *)
(* order, with the productName, productUrl and productWebsite of the       *)
(* product.                                                                *)
(***************************************************************************)
FirstLinkTo(u) ==
  CHOOSE k \in DOMAIN makerLinks :
    /\ MakerUrl(makerLinks[k]) = u
    /\ \A m \in 1..(k-1) : MakerUrl(makerLinks[m]) # u

ConfirmedFirst(ms) ==
  \A i, j \in DOMAIN ms : (i < j /\ ms[j].isMaker) => ms[i].isMaker

PlaceInMakersToProcess(u) == CHOOSE k \in DOMAIN makersToProcess : makersToProcess[k].url = u

MakersSoFar == IF pcD = "returned" THEN dResult.makers ELSE productDetails.makers

C13_ConfirmedMakersFirst ==
  /\ [](/\ (pcD = "makerLoop" /\ mi = 1) =>
             /\ ConfirmedFirst(makersToProcess)
             /\ \A i, j \in DOMAIN makersToProcess :
                  (i < j /\ makersToProcess[i].isMaker = makersToProcess[j].isMaker) =>
                    FirstLinkTo(makersToProcess[i].url) < FirstLinkTo(makersToProcess[j].url)
        /\ ConfirmedFirst(MakersSoFar)
        /\ \A i \in DOMAIN MakersSoFar :
             \E k \in DOMAIN makersToProcess : makersToProcess[k].url = MakersSoFar[i].url
        /\ \A i, j \in DOMAIN MakersSoFar :
             i < j => PlaceInMakersToProcess(MakersSoFar[i].url)
                        < PlaceInMakersToProcess(MakersSoFar[j].url))
  /\ [][(pcB = "wait" /\ pcD = "returned" /\ dResult.makers # <<>>) =>
          allProductData' = allProductData \o
            [k \in 1..Len(dResult.makers) |->
               [productName |-> productsToProcess[bi].name,
                productUrl |-> productsToProcess[bi].url,
                productWebsite |-> dResult.productWebsite,
                makerName |-> dResult.makers[k].name,
                makerUrl |-> dResult.makers[k].url,
                email |-> dResult.makers[k].email,
                xId |-> dResult.makers[k].xId,
                linkedinUrl |-> dResult.makers[k].linkedinUrl,
                websiteEmail |-> dResult.websiteContactInfo.email,
                websiteTwitter |-> dResult.websiteContactInfo.twitter,
                websiteLinkedin |-> dResult.websiteContactInfo.linkedin,
                websiteContactPage |-> dResult.websiteContactInfo.website,
                extractedDate |-> extractedDate]]]_vars

\* the example of the claim: the page lists m1 (unconfirmed) before m2 (confirmed),
\* the records are those of m2 and m1, with the same product fields
C13_Witness ==
  /\ pcB = "delay"
  /\ bi = 1
  /\ Len(allProductData) = 2
  /\ allProductData[1].makerUrl = <<PHOrigin, "/@", "m2">>
  /\ allProductData[2].makerUrl = <<PHOrigin, "/@", "m1">>
  /\ allProductData[1].productUrl = allProductData[2].productUrl
  /\ allProductData[1].productName = allProductData[2].productName
  /\ allProductData[1].productWebsite = allProductData[2].productWebsite
  /\ allProductData[1].productWebsite # <<>>

(***************************************************************************)
(* C14: the makers of a product's details are never more than              *)
(* maxMakersPerProduct, also when the page lists more confirmed makers     *)
(* than that, and a product never has more than max(1, maxMakersPerProduct)*)
(* records.                                                                *)
(***************************************************************************)
C14_MakerCap ==
  /\ Len(makersToProcess) <= maxMakersPerProduct
  /\ Len(productDetails.makers) <= maxMakersPerProduct
  /\ Len(dResult.makers) <= maxMakersPerProduct
  /\ \A i \in 1..Processed :
       Cardinality(RecordsFor(i)) <= (IF maxMakersPerProduct > 1 THEN maxMakersPerProduct ELSE 1)

\* a page with more confirmed makers than the cap: the product got exactly
\* maxMakersPerProduct records
C14_Witness ==
  /\ pcB = "delay"
  /\ bi = 1
  /\ Len(allProductData) = maxMakersPerProduct
  /\ allProductData[1].makerUrl = <<PHOrigin, "/@", "m3">>

(***************************************************************************)
(* C15, as stated: with the same counters, the delay computed for a call   *)
(* made 200 ms after the last request is larger than the delay computed    *)
(* for a call made 5 s after it, whatever the random terms of both calls.  *)
(***************************************************************************)
FastCallMade == lastCall # NoCall /\ lastCall.t = 200

\* the delay of a call made 5 s after the last request, with the counters of the
\* latest call and the random term r
SlowDelay(r) == DelayTime(lastCall.c, lastCall.f, 5000, r, 0)

ExactGap(r) == Ms(1000) + lastCall.r1 + lastCall.r2 - r

LastSegment(url) ==
  LET marks   == {i \in 1..Len(url) : url[i] \in {"?", "#"}}
      end     == IF marks = {} THEN Len(url)
                 ELSE (CHOOSE i \in marks : \A j \in marks : i <= j) - 1
      last    == IF end > 0 /\ url[end] = "/" THEN end - 1 ELSE end
      slashes == {i \in 1..last : url[i] = "/"}
      first   == IF slashes = {} THEN 1
                 ELSE (CHOOSE i \in slashes : \A j \in slashes : j <= i) + 1
  IN SubSeq(url, first, last)

C16_HandleIsLastSegment ==
  (entry = "twitterHandle" /\ fnDone) =>
    LET seg == LastSegment(fnInput)
    IN /\ fnOutput = IF \/ seg = <<>>
                        \/ \E i \in 1..Len(seg) : seg[i] = "."
                        \/ seg \in {<<"twitter", ".", "com">>, <<"x", ".", "com">>}
                     THEN <<>>
                     ELSE seg
       /\ \A i \in 1..Len(fnOutput) : fnOutput[i] \notin {".", "/", "?", "#"}
       /\ (fnInput = HandleUrlWithQuery => fnOutput = <<"acme_io">>)
       /\ (fnInput = BareDomainUrl => fnOutput = <<>>)

C16_Witness ==
  /\ entry = "twitterHandle"
  /\ fnDone
  /\ fnInput = HandleUrlWithQuery
  /\ fnOutput = <<"acme_io">>


(***************************************************************************)
(* C17: the email cleanup of the profile page returns the part of the raw  *)
(* email-shaped match that ends at the first domain ending after the "@",  *)
(* so that markup, punctuation or words after the address are removed:     *)
(* contact@example.com<br/>Visit gives contact@example.com, and so does    *)
(* contact@example.comVisit, where the word is glued to the address.       *)
(***************************************************************************)
AtOf(rawEmail) == MinOf({k \in 1..Len(rawEmail) : rawEmail[k] = "@"})

EndingsAfterAt(rawEmail, endings) ==
  {q \in (AtOf(rawEmail) + 1)..(Len(rawEmail) - 1) :
     rawEmail[q] = "." /\ rawEmail[q + 1] \in endings}

C17_CleanedToAddress ==
  (entry = "email" /\ fnDone /\ fnOutput.scan # "none") =>
    LET endings == IF fnOutput.scan = "text" THEN TextDomainEndings
                   ELSE LiveDomainEndings
        found   == EndingsAfterAt(fnOutput.rawEmail, endings)
    IN /\ found # {} =>
            fnOutput.email = SubSeq(fnOutput.rawEmail, 1, MinOf(found) + 1)
       /\ fnInput \in {AddressThenMarkup, AddressThenGluedWord} =>
            fnOutput.email = <<"contact", "@", "example", ".", "com">>

\* C17, the first example of the claim: the address followed by markup
C17_MarkupRemoved ==
  (entry = "email" /\ fnDone /\ fnInput = AddressThenMarkup) =>
    fnOutput.email = <<"contact", "@", "example", ".", "com">>

\* the glued word is kept
C17_Witness ==
  /\ entry = "email"
  /\ fnDone
  /\ fnInput = AddressThenGluedWord
  /\ fnOutput.scan = "text"
  /\ fnOutput.email = AddressThenGluedWord


(***************************************************************************)
(* C18: only rows with at least one valid email address are uploaded: a    *)
(* data row whose email cells are all empty or all fail the verification   *)
(* is not among the values passed to appendToSheet.                        *)
(***************************************************************************)
HasValidEmail(row, headers, apiUp) ==
  \E c \in 1..Len(headers) :
     /\ headers[c] \in EmailHeaders
     /\ c <= Len(row)
     /\ apiUp
     /\ row[c] = "good@acme.com"

C18_OnlyRowsWithValidEmail ==
  (entry = "sheets" /\ fnDone /\ fnOutput.appended) =>
    \A i \in 2..Len(fnOutput.values) :
       HasValidEmail(fnOutput.values[i], fnInput[1], fnOutput.apiUp)

\* a row without any email is passed to appendToSheet
C18_Witness ==
  /\ entry = "sheets"
  /\ fnDone
  /\ fnInput = <<<<"Product Name", "Email", "Website Email">>, <<"p", "", "">>>>
  /\ fnOutput.appended
  /\ fnOutput.values[2] = <<"p", "", "", "No Email", "Not Sent">>


(***************************************************************************)
(* C19: every navigation attempt races against a hard timeout of its own,  *)
(* started with the attempt: an attempt that the hard timeout failed has   *)
(* itself run for the full hardTimeout, whatever time earlier attempts     *)
(* took.                                                                   *)
(***************************************************************************)
C19_OwnHardTimeout ==
  navAttempt.error = "timeout" =>
    navAttempt.endedAt - navAttempt.startedAt >= hardTimeout

\* the third attempt is failed by the timer in the instant it starts
C19_Witness ==
  /\ pcW = "catch"
  /\ navRetry = navMaxRetries
  /\ navAttempt.error = "timeout"
  /\ navAttempt.startedAt = hardTimeout + retryDelay
  /\ navAttempt.endedAt = navAttempt.startedAt

(***************************************************************************)
(* C20: there are at most navMaxRetries navigation attempts; the first     *)
(* waits in the lightest way; a further attempt is made only after the     *)
(* attempt before it failed and waits in a way strictly stricter than that *)
(* attempt, where domcontentloaded is lighter than networkidle2, which is  *)
(* lighter than networkidle0; after the last attempt failed the empty      *)
(* bundle is returned.                                                     *)
(***************************************************************************)
Strictness(waitUntil) ==
  CASE waitUntil = "domcontentloaded" -> 1
    [] waitUntil = "networkidle2"     -> 2
    [] waitUntil = "networkidle0"     -> 3

AttemptMade == pcW = "nav" /\ navAttempt' # navAttempt

C20_EscalatingAttempts ==
  /\ [](navRetry <= navMaxRetries)
  /\ [][AttemptMade =>
          IF navRetry = 0
          THEN Strictness(navAttempt'.waitUntil) = 1
          ELSE /\ navAttempt.error # ""
               /\ Strictness(navAttempt'.waitUntil) > Strictness(navAttempt.waitUntil)]_vars
  /\ [][(pcW = "catch" /\ navRetry = navMaxRetries /\ pcW' = "returned") =>
          wResult' = EmptyBundle]_vars

\* the third attempt waits for networkidle2, after the second waited for
\* networkidle0
C20_Witness ==
  /\ pcW = "catch"
  /\ navRetry = navMaxRetries
  /\ navAttempt.waitUntil = "networkidle2"


(***************************************************************************)
(* C21: when a product website is found, extractWebsiteContactInfo is      *)
(* called at most websiteMaxRetries + 1 times; it is called again only     *)
(* after a call that threw or returned a bundle with four empty fields;    *)
(* the wait before retry k is retryWaitStep times k, longer than the wait  *)
(* before; the loop always ends, and after it the websiteContactInfo of    *)
(* the details is a bundle, never null.                                    *)
(***************************************************************************)
WebsiteCalled == pcD = "websiteLoop" /\ pcD' = "websiteWait"

WebsiteAnswered == pcD = "websiteWait" /\ pcD' = "websiteLoop"

FoundSomething ==
  /\ pcW = "returned"
  /\ wResult.email # "" \/ wResult.twitter # "" \/ wResult.linkedin # "" \/ wResult.website # ""

C21_WebsiteRetryLoop ==
  /\ [](websiteTry.calls <= websiteMaxRetries + 1)
  /\ [][WebsiteCalled => websiteContactInfo = Null]_vars
  /\ [][(WebsiteAnswered /\ FoundSomething) => websiteContactInfo' = wResult]_vars
  /\ [][(WebsiteCalled /\ websiteTry.calls >= 1) =>
          /\ websiteTry'.wait = retryWaitStep * websiteTry.calls
          /\ websiteTry'.wait > websiteTry.wait]_vars
  /\ [](pcD \in {"makers", "makerLoop", "makerWait", "return"} =>
          /\ productDetails.websiteContactInfo # Null
          /\ DOMAIN productDetails.websiteContactInfo = DOMAIN EmptyBundle)
  /\ (pcD = "websiteLoop") ~> (pcD = "makers")

C21_Witness ==
  /\ pcD = "websiteWait"
  /\ websiteTry = [calls |-> websiteMaxRetries + 1, wait |-> retryWaitStep * websiteMaxRetries]


(***************************************************************************)
(* C22: adaptiveDelay is called before the request of the next product     *)
(* and before the request of the next maker: after a maker's profile was   *)
(* extracted, the delay before the next maker is the delay adaptiveDelay   *)
(* computed from requestStats in that step.                                *)
(***************************************************************************)
NextProduct == pcB = "delay" /\ pcB' = "loop" /\ bi < Len(productsToProcess)

NextMaker ==
  /\ pcD = "makerWait"
  /\ pcP = "returned"
  /\ pcD' = "makerLoop"
  /\ mi < Len(makersToProcess)

AdaptiveDelayComputed ==
  /\ lastCall'.delayTime > 0
  /\ lastCall'.c = consecutiveRequests
  /\ lastCall'.f = failedRequests

C22_AdaptiveDelayBetweenRequests ==
  /\ [][NextProduct => AdaptiveDelayComputed]_vars
  /\ [][NextMaker => (AdaptiveDelayComputed /\ Ms(makerDelayTime') = lastCall'.delayTime)]_vars

\* C22, the part about products alone
C22_AdaptiveDelayBetweenProducts == [][NextProduct => AdaptiveDelayComputed]_vars

\* the delay before the second maker is randomDelay(1000); adaptiveDelay was
\* not called
C22_Witness ==
  /\ pcD = "makerLoop"
  /\ mi = 2
  /\ Len(makersToProcess) = 2
  /\ makerDelayTime = 800
  /\ lastCall = NoCall


(***************************************************************************)
(* C23: a CAPTCHA or block marker found after the load is advisory: once   *)
(* a marker was detected the extraction goes on to the next check or pass  *)
(* and never to the failure path, also when the screenshot cannot be       *)
(* taken.                                                                  *)
(***************************************************************************)
MarkerDetected == pcW \in {"captchaShot", "blockedShot"}

C23_MarkersNeverAbort == [][MarkerDetected => pcW' # "catch"]_vars

\* a block marker was detected on the loaded main page
C23_Witness ==
  /\ pcW = "blockedShot"
  /\ wPage = "open"
  /\ wLoc = "main"


(***************************************************************************)
(* C24: failedRequests is incremented once for every product whose detail  *)
(* resolution failed, such as a product page that could not be loaded, and *)
(* is never decremented; every delay adaptiveDelay computes holds 1000 ms  *)
(* for each failure counted by then.                                       *)
(***************************************************************************)
DetailsAnswered == pcB = "wait" /\ pcB' = "delay"

DetailsFailed == pcD = "threw" \/ (pcD = "returned" /\ dFailed)

C24_PenaltyCounted ==
  /\ [](lastCall.delayTime >= lastCall.f * Ms(1000))
  /\ [][failedRequests' >= failedRequests]_vars
  /\ [][lastCall' # lastCall => lastCall'.f = failedRequests]_vars

C24_EveryFailureCounted ==
  /\ C24_PenaltyCounted
  /\ [][DetailsAnswered =>
          failedRequests' = IF DetailsFailed THEN failedRequests + 1 ELSE failedRequests]_vars

\* the details of the second product failed inside getProductDetails, which
\* returns the empty details: the failure is about to go uncounted
C24_Witness ==
  /\ pcB = "wait"
  /\ bi = 2
  /\ pcD = "returned"
  /\ dFailed
  /\ dResult = EmptyDetails
  /\ failedRequests = 0
  /\ lastCall.f = 0
  /\ lastCall.delayTime > 0

(***************************************************************************)
(* C25: the run loop of continuous-scraper.js never stops because a pass   *)
(* failed.  After a pass that failed (updateTargetUrl failed, the child    *)
(* exited with a non-zero code, findLatestCSV threw) or whose export       *)
(* failed, the loop cleans up, waits the fixed cooldown of 5 minutes and   *)
(* starts a new pass at updateTargetUrl; with every step of the loop       *)
(* eventually taken, a failed pass is always followed by a new pass.       *)
(***************************************************************************)
PassFailed == cycleResult = "failed" \/ failure = "export"

C25_LoopNeverStops ==
  /\ [](entry = "continuous" => pcR # "exited")
  /\ [](entry = "continuous" /\ PassFailed => pcR \in {"cleanup", "cycle"})
  /\ [][entry = "continuous" /\ pcR = "cleanup" /\ pcR' # "cleanup"
          => pcR' = "cycle" /\ waited' = cooldown]_vars
  /\ [][cycleCount' # cycleCount
          => pcR = "cycle" /\ pcR' \in {"reload", AfterCycle(FALSE)}]_vars
  /\ \A n \in 1..(MaxCycles - 1) :
       (entry = "continuous" /\ cycleCount = n /\ PassFailed) ~> (cycleCount = n + 1)

\* the first two passes failed at updateTargetUrl and the third has started
\* after the cooldown
C25_Witness ==
  /\ entry = "continuous"
  /\ cycleCount = 3
  /\ targetDates = <<>>
  /\ envFile \in StartDates
  /\ pcR = "cleanup"

(***************************************************************************)
(* C26: in every cycle of continuous-scraper.js and every run of           *)
(* cron-scraper.js, the node index.js child scrapes the TARGET_URL that    *)
(* updateTargetUrl wrote to .env in that same cycle.                       *)
(***************************************************************************)
ChildRan == childTarget # NoDate

C26_ChildScrapesUpdatedUrl ==
  ChildRan => updateResult.success /\ childTarget = updateResult.date

\* the second cycle has written a new date to .env, and its child scrapes
\* the date the process loaded when it started
C26_Witness ==
  /\ entry = "continuous"
  /\ cycleCount = 2
  /\ ChildRan
  /\ updateResult.success
  /\ envFile = updateResult.date
  /\ Len(targetDates) = 2
  /\ envFile = PrevDay(PrevDay(childTarget))

(***************************************************************************)
(* C27: every cycle in which updateTargetUrl succeeds moves the date of    *)
(* the TARGET_URL in .env back by exactly one calendar day, before the     *)
(* scraper runs and whatever the outcome of the cycle before; the dates    *)
(* written are strictly decreasing, so no date is written twice.           *)
(***************************************************************************)
DaysBeforeMonth == <<0, 31, 59, 90, 120, 151, 181, 212, 243, 273, 304, 334>>

\* the number of the day in the proleptic Gregorian calendar
DayNumber(t) ==
  365 * t[1] + ((t[1] - 1) \div 4) - ((t[1] - 1) \div 100) + ((t[1] - 1) \div 400)
  + DaysBeforeMonth[t[2]]
  + (IF t[2] > 2 /\ ((t[1] % 4 = 0 /\ t[1] % 100 # 0) \/ t[1] % 400 = 0) THEN 1 ELSE 0)
  + t[3]

UpdateSucceeds == cycleCount' # cycleCount /\ updateResult'.success

C27_DateMovesBackOneDay ==
  /\ [][UpdateSucceeds /\ envFile # NoDate
          => DayNumber(envFile') = DayNumber(envFile) - 1]_vars
  /\ [][envFile' # envFile => UpdateSucceeds]_vars
  /\ [](pcR \in {"reload", "child"}
          => /\ updateResult.success
             /\ envFile = updateResult.date
             /\ targetDates[Len(targetDates)] = envFile)
  /\ [](\A i, j \in 1..Len(targetDates) :
          i < j => DayNumber(targetDates[j]) < DayNumber(targetDates[i]))

\* three cycles from 2024/3/1, one of the first two failed in
\* updateTargetUrl: the third has written 2024/2/28 after 2024/2/29
C27_Witness ==
  /\ cycleCount = 3
  /\ pcR = "child"
  /\ targetDates = << <<2024, 2, 29>>, <<2024, 2, 28>> >>
  /\ envFile = <<2024, 2, 28>>

(***************************************************************************)
(* C28: during the navigation retry loop of extractWebsiteContactInfo at   *)
(* most one page.goto navigation is in flight on the page: a retry is      *)
(* started only after the page.goto promise of the attempt before has      *)
(* settled, also when that attempt was failed by the shared 60 s timer     *)
(* before its own 45 s navigation timeout.                                 *)
(***************************************************************************)
C28_OneNavigationInFlight ==
  /\ navAttempt.inFlight <= 1
  /\ (pcW = "nav" /\ navRetry < navMaxRetries) => navAttempt.settlesAt <= navClock

\* the second attempt, started at 31 s, was failed by the timer at 60 s with
\* its page.goto due to settle at 76 s; the third attempt has called
\* page.goto at 62 s
C28_Witness ==
  /\ navAttempt.waitUntil = "networkidle2"
  /\ navAttempt.startedAt = hardTimeout + retryDelay
  /\ navAttempt.inFlight = 2
  /\ navRetry = navMaxRetries
  /\ pcW = "catch"

(***************************************************************************)
(* C29: the initial pass and the footer pass of extractWebsiteContactInfo  *)
(* always extract from the main page (websiteUrl): when a contact page was *)
(* visited first, the page shows websiteUrl again before the initial pass  *)
(* runs, also when the extraction from the contact page or the navigation  *)
(* back failed.                                                            *)
(***************************************************************************)
C29_PassesOnMainPage ==
  pcW \in {"initial", "footer"} => wLoc = "main"

\* the contact page gave a bundle, the navigation back was rejected, and the
\* initial pass has extracted from the contact page
C29_Witness ==
  /\ pcW = "footer"
  /\ contactPageUrl # <<>>
  /\ contactPageInfo = FullBundle
  /\ initialContactInfo = FullBundle
  /\ wLoc = "contact"

(***************************************************************************)
(* C30: the twitter field of a bundle of the website extraction is empty   *)
(* or a bare handle with no "." and no "/" in it, for every link           *)
(* classified as Twitter/X by href, link text or inner HTML, also when the *)
(* URL has no handle segment or does not point to twitter.com / x.com.     *)
(***************************************************************************)
BareHandle(h) == ~ Includes(h, ".") /\ ~ Includes(h, "/")

C30_TwitterIsBareHandle ==
  fnDone /\ entry = "social" => fnOutput = <<>> \/ BareHandle(fnOutput)

\* a link to https://x.com/ with no handle: the field is the URL
C30_Witness ==
  /\ entry = "social"
  /\ fnDone
  /\ fnInput.href = <<"https:", "/", "/", "x", ".", "com", "/">>
  /\ fnOutput = <<"https:", "/", "/", "x", ".", "com">>

====
